---- MODULE Spec2Model ----
(***************************************************************************)
(* Apple In-App-Purchase receipt validation (python-iap, iap/utils.py).   *)
(*                                                                         *)
(* The remote validation client (validate_receipt_with_apple), the local  *)
(* policy checks (validate_production_receipt / validate_debug_receipt)   *)
(* and the subscription activity evaluation (validate_receipt_is_active)  *)
(* as a state machine.  A call blocks on every HTTP POST; the endpoint's  *)
(* answer is the input of the step that follows it.                       *)
(*                                                                         *)
(* Python dicts are functions whose DOMAIN is the set of keys present.    *)
(* Python lists are sequences.  Exceptions are named by their class.      *)
(***************************************************************************)
EXTENDS Integers, Sequences, FiniteSets, TLC

VARIABLES
    pc,             \* "idle" | "wait" (blocked in requests.post) | "done"
    entry,          \* the public function that was called
    args,           \* its arguments: data, timedelta, is_test, product_id
    secret,         \* settings.IAP_SHARED_SECRET ("" when not configured)
    attempt,        \* which invocation of validate_receipt_with_apple runs (0: none)
    url,            \* the endpoint of the pending POST
    payload,        \* the JSON body built at the start of the running invocation
    requests,       \* every POST sent so far: [url, payload, attempt]
    last_response,  \* the HTTP response most recently received
    apple_results,  \* how each finished validate_receipt_with_apple invocation ended
    stages,         \* the stages of validate_receipt_is_active that have run
    now,            \* datetime.datetime.utcnow() of the activity evaluation
    result,         \* how the call ended
    threads         \* the frame of each running call of the receipt parser

vars == <<pc, entry, args, secret, attempt, url, payload, requests, last_response,
          apple_results, stages, now, result, threads>>

----------------------------------------------------------------------------
(* Bounds of the model. *)

\* longest list of purchase entries (in_app, latest_receipt_info) Apple answers with
MaxEntries == 2
\* the most attributes of a decoded receipt payload
MaxAttributes == 3

----------------------------------------------------------------------------
(* iap/exceptions.py *)

APPSTORE_STATUS_INVALID_JSON == 21000
APPSTORE_STATUS_MALFORMED_RECEIPT_DATA == 21002
APPSTORE_STATUS_RECEIPT_AUTHENTICATION == 21003
APPSTORE_STATUS_SHARED_SECRET_MISMATCH == 21004
APPSTORE_STATUS_RECEIPT_SERVER_DOWN == 21005
APPSTORE_STATUS_EXPIRED_SUBSCRIPTION == 21006
APPSTORE_STATUS_TEST_ENVIRONMENT_RECEIPT == 21007
APPSTORE_STATUS_PROD_ENVIRONMENT_RECEIPT == 21008
APPSTORE_STATUS_UNAUTHORIZED_RECEIPT == 21010
APPSTORE_STATUS_INTERNAL_DATA_ACCESS_ERROR_MIN == 21100
APPSTORE_STATUS_INTERNAL_DATA_ACCESS_ERROR_MAX == 21199
\* the literal of the `elif status == 21009` branch
STATUS_INTERNAL_APPLE_ERROR == 21009

\* Fault variant: NoPurchasesException declared as a RetryReceiptValidation
ExceptionBase_NoPurchasesRetries(cls) ==
    CASE cls = "RetryReceiptValidation" -> "ReceiptValidationException"
      [] cls = "NoActiveReceiptException" -> "ReceiptValidationException"
      [] cls = "NoPurchasesException" -> "RetryReceiptValidation"
      [] OTHER -> "Exception"

\* The base class of each exception class.  HTTPError (requests), KeyError and
\* binascii.Error are not part of the package's hierarchy.
ExceptionBase(cls) ==
    CASE cls = "RetryReceiptValidation" -> "ReceiptValidationException"
      [] cls = "NoActiveReceiptException" -> "ReceiptValidationException"
      [] cls = "NoPurchasesException" -> "ReceiptValidationException"
      [] OTHER -> "Exception"

\* isinstance(exc, base), which is what an `except base:` clause tests
IsInstance(cls, base) ==
    \/ cls = base
    \/ ExceptionBase(cls) = base
    \/ base = "Exception"

----------------------------------------------------------------------------
(* Python dicts *)

EmptyDict == [k \in {} |-> 0]
Has(d, k) == k \in DOMAIN d
Get(d, k, default) == IF k \in DOMAIN d THEN d[k] ELSE default
Put(d, k, v) == (k :> v) @@ d

----------------------------------------------------------------------------
(* iap/settings.py *)

PRODUCTION_VERIFICATION_URL == "https://buy.itunes.apple.com/verifyReceipt"
SANDBOX_VERIFICATION_URL == "https://sandbox.itunes.apple.com/verifyReceipt"
PRODUCTION_BUNDLE_ID == "com.example.app"
DEBUG_BUNDLE_ID == "com.example.app.debug"
PRODUCTION_PRODUCT_IDS == {"A", "B"}
DEBUG_PRODUCT_IDS == {"D"}

----------------------------------------------------------------------------
(* base64: bytes are 0..255, base64 text is a sequence of alphabet indices  *)
(* 0..63 with 64 standing for the padding character '='.                   *)

\* one past the last alphabet index
B64Pad == 63 + 1

RECURSIVE b64encode(_)
b64encode(bytes) ==
    IF Len(bytes) = 0 THEN <<>>
    ELSE IF Len(bytes) = 1 THEN
        <<bytes[1] \div 4, (bytes[1] % 4) * 16, B64Pad, B64Pad>>
    ELSE IF Len(bytes) = 2 THEN
        <<bytes[1] \div 4,
          (bytes[1] % 4) * 16 + bytes[2] \div 16,
          (bytes[2] % 16) * 4,
          B64Pad>>
    ELSE
        <<bytes[1] \div 4,
          (bytes[1] % 4) * 16 + bytes[2] \div 16,
          (bytes[2] % 16) * 4 + bytes[3] \div 64,
          bytes[3] % 64>>
        \o b64encode(SubSeq(bytes, 4, Len(bytes)))

\* binascii accepts the text when its length is a multiple of four
b64valid(text) == Len(text) % 4 = 0

RECURSIVE b64decode(_)
b64decode(text) ==
    IF Len(text) < 4 THEN <<>>
    ELSE
        LET a == text[1]
            b == text[2]
            c == text[3]
            d == text[4]
            first == a * 4 + b \div 16
            second == (b % 16) * 16 + (IF c = B64Pad THEN 0 ELSE c \div 4)
            third == (IF c = B64Pad THEN 0 ELSE (c % 4) * 64) + (IF d = B64Pad THEN 0 ELSE d)
            group == IF c = B64Pad THEN <<first>>
                     ELSE IF d = B64Pad THEN <<first, second>>
                     ELSE <<first, second, third>>
        IN  group \o b64decode(SubSeq(text, 5, Len(text)))

----------------------------------------------------------------------------
(* validate_receipt_with_apple *)

Url(is_production_url) ==
    IF is_production_url THEN PRODUCTION_VERIFICATION_URL ELSE SANDBOX_VERIFICATION_URL

\* payload = {"receipt-data": base64(data)}, plus "password" when a shared
\* secret is configured
Payload(data_bytes, shared_secret) ==
    LET body == "receipt-data" :> b64encode(data_bytes)
    IN  IF shared_secret # "" THEN Put(body, "password", shared_secret) ELSE body

\* How one step of a call ends: an exception (kind "raise", with the class and,
\* for a ReceiptValidationException, its receipt attribute), a value (kind
\* "return"), or the next iteration of the endpoint loop (kind "continue").
Raise(cls, receipt) == [kind |-> "raise", exc |-> cls, value |-> receipt]
Return(content) == [kind |-> "return", exc |-> "", value |-> content]
Continue == [kind |-> "continue", exc |-> "", value |-> EmptyDict]
\* the endpoint loop ran out of urls: the function ends without a return statement
ReturnNone == [kind |-> "return_none", exc |-> "", value |-> EmptyDict]
NoResult == [kind |-> "none", exc |-> "", value |-> EmptyDict]

\* requests.Response.raise_for_status raises HTTPError for a 4xx or 5xx status
\* code and for no other
raise_for_status(r) == 400 <= r.status_code /\ r.status_code < 600

\* The if/elif chain on the status of the response.  "pass" leaves the chain
\* (status 0, or a value equal to none of the tests).
StatusChain(status, is_production_url, content) ==
    IF status = APPSTORE_STATUS_INVALID_JSON THEN
        Raise("ReceiptValidationException", content)
    ELSE IF status = APPSTORE_STATUS_MALFORMED_RECEIPT_DATA THEN
        Raise("ReceiptValidationException", content)
    ELSE IF status = APPSTORE_STATUS_RECEIPT_AUTHENTICATION THEN
        Raise("ReceiptValidationException", content)
    ELSE IF status = APPSTORE_STATUS_SHARED_SECRET_MISMATCH THEN
        Raise("ReceiptValidationException", content)
    ELSE IF status = APPSTORE_STATUS_RECEIPT_SERVER_DOWN THEN
        Raise("RetryReceiptValidation", content)
    ELSE IF status = APPSTORE_STATUS_EXPIRED_SUBSCRIPTION THEN
        Raise("ReceiptValidationException", content)
    ELSE IF status = APPSTORE_STATUS_TEST_ENVIRONMENT_RECEIPT THEN
        IF is_production_url THEN Continue
        ELSE Raise("ReceiptValidationException", content)
    ELSE IF status = APPSTORE_STATUS_PROD_ENVIRONMENT_RECEIPT THEN
        Raise("ReceiptValidationException", content)
    ELSE IF status = APPSTORE_STATUS_UNAUTHORIZED_RECEIPT THEN
        Raise("NoPurchasesException", content)
    ELSE IF status = STATUS_INTERNAL_APPLE_ERROR THEN
        Raise("RetryReceiptValidation", content)
    ELSE IF APPSTORE_STATUS_INTERNAL_DATA_ACCESS_ERROR_MIN <= status
            /\ status <= APPSTORE_STATUS_INTERNAL_DATA_ACCESS_ERROR_MAX THEN
        Raise("RetryReceiptValidation", content)
    ELSE IF status # 0 THEN
        Raise("RetryReceiptValidation", content)
    ELSE
        [kind |-> "pass", exc |-> "", value |-> content]

\* Fault variant: an inactive subscription (21006) treated as transient
StatusOutcome_ExpiredRetries(status, is_production_url, content) ==
    IF status = APPSTORE_STATUS_EXPIRED_SUBSCRIPTION
    THEN Raise("RetryReceiptValidation", content)
    ELSE StatusChain(status, is_production_url, content)

\* Fault variant: an unavailable server (21005) treated as fatal
StatusOutcome_ServerDownFatal(status, is_production_url, content) ==
    IF status = APPSTORE_STATUS_RECEIPT_SERVER_DOWN
    THEN Raise("ReceiptValidationException", content)
    ELSE StatusChain(status, is_production_url, content)

\* Fault variant: 21007 moves on to the next url whichever endpoint answered
StatusOutcome_AlwaysContinue(status, is_production_url, content) ==
    IF status = APPSTORE_STATUS_TEST_ENVIRONMENT_RECEIPT
    THEN Continue
    ELSE StatusChain(status, is_production_url, content)

\* Fault variant: 21007 never falls back to the sandbox endpoint
StatusOutcome_NoFallback(status, is_production_url, content) ==
    IF status = APPSTORE_STATUS_TEST_ENVIRONMENT_RECEIPT
    THEN Raise("ReceiptValidationException", content)
    ELSE StatusChain(status, is_production_url, content)

\* Fault variant: the retry of an unavailable server carries no content
StatusOutcome_RetryEmpty(status, is_production_url, content) ==
    IF status = APPSTORE_STATUS_RECEIPT_SERVER_DOWN
    THEN Raise("RetryReceiptValidation", EmptyDict)
    ELSE StatusChain(status, is_production_url, content)

StatusOutcome(status, is_production_url, content) ==
    StatusChain(status, is_production_url, content)

\* Fault variant: a _sandbox key of the answer is kept
ReceiptOutcome_KeepsAnswer(content, is_production_url, py) ==
    IF ~Has(content, "receipt") THEN
        Raise("ReceiptValidationException", content)
    ELSE IF DOMAIN content["receipt"] = {} THEN
        Raise("ReceiptValidationException", content)
    ELSE
        LET receipt == Put(content["receipt"], "_sandbox",
                           Get(content["receipt"], "_sandbox", ~is_production_url))
            marked == Put(content, "receipt", receipt)
            in_app_purchases == Get(receipt, "in_app", <<>>)
            latest_receipt == Get(receipt, "latest_receipt", <<>>)
            encoded == Put(receipt, "latest_receipt_encoded", latest_receipt)
        IN  IF Len(in_app_purchases) = 0 THEN
                Raise("NoPurchasesException", marked)
            ELSE IF Len(latest_receipt) = 0 THEN
                Return(marked)
            ELSE IF b64valid(latest_receipt) THEN
                Return(Put(content, "receipt",
                           Put(encoded, "latest_receipt", b64decode(latest_receipt))))
            ELSE IF py = 2 THEN
                Raise("ReceiptValidationException", Put(content, "receipt", encoded))
            ELSE
                Raise("binascii.Error", EmptyDict)

\* The rest of the loop body, reached with status 0.  base64.b64decode of a
\* malformed latest_receipt raises TypeError under Python 2 (caught) and
\* binascii.Error under Python 3 (not caught): py is the interpreter's major
\* version.
ReceiptOutcome(content, is_production_url, py) ==
    IF ~Has(content, "receipt") THEN
        Raise("ReceiptValidationException", content)
    ELSE IF DOMAIN content["receipt"] = {} THEN
        Raise("ReceiptValidationException", content)
    ELSE
        LET receipt == Put(content["receipt"], "_sandbox", ~is_production_url)
            marked == Put(content, "receipt", receipt)
            in_app_purchases == Get(receipt, "in_app", <<>>)
            latest_receipt == Get(receipt, "latest_receipt", <<>>)
            encoded == Put(receipt, "latest_receipt_encoded", latest_receipt)
        IN  IF Len(in_app_purchases) = 0 THEN
                Raise("NoPurchasesException", marked)
            ELSE IF Len(latest_receipt) = 0 THEN
                Return(marked)
            ELSE IF b64valid(latest_receipt) THEN
                Return(Put(content, "receipt",
                           Put(encoded, "latest_receipt", b64decode(latest_receipt))))
            ELSE IF py = 2 THEN
                Raise("ReceiptValidationException", Put(content, "receipt", encoded))
            ELSE
                Raise("binascii.Error", EmptyDict)

\* One iteration of the loop over the two endpoints, from the response to the
\* POST onwards.
EndpointIteration(r, is_production_url, py) ==
    IF raise_for_status(r) THEN
        Raise("HTTPError", EmptyDict)
    ELSE IF ~r.json_ok THEN
        Raise("ReceiptValidationException", EmptyDict)
    ELSE IF ~Has(r.content, "status") THEN
        Raise("ReceiptValidationException", r.content)
    ELSE
        LET chain == StatusOutcome(r.content["status"], is_production_url, r.content)
        IN  IF chain.kind = "pass"
            THEN ReceiptOutcome(r.content, is_production_url, py)
            ELSE chain

----------------------------------------------------------------------------
(* datetime: a datetime (time since the epoch) and a timedelta are both     *)
(* held the way Python normalises them: days, seconds, microseconds.       *)

DAY_MS == 24 * 60 * 60 * 1000
MINUTE_MS == 60 * 1000

\* datetime.timedelta(days=d, minutes=m)
timedelta(d, m) ==
    [days |-> d + (m * 60) \div 86400, seconds |-> (m * 60) % 86400, microseconds |-> 0]

\* datetime.datetime.utcfromtimestamp(ms / 1000.0)
utcfromtimestamp(ms) ==
    [days |-> ms \div DAY_MS,
     seconds |-> (ms % DAY_MS) \div 1000,
     microseconds |-> (ms % 1000) * 1000]

\* datetime + timedelta, carrying microseconds into seconds into days
DatetimeAdd(dt, td) ==
    LET us == dt.microseconds + td.microseconds
        sec == dt.seconds + td.seconds + us \div 1000000
    IN  [days |-> dt.days + td.days + sec \div 86400,
         seconds |-> sec % 86400,
         microseconds |-> us % 1000000]

\* datetime < datetime
DatetimeLess(a, b) ==
    \/ a.days < b.days
    \/ a.days = b.days /\ a.seconds < b.seconds
    \/ a.days = b.days /\ a.seconds = b.seconds /\ a.microseconds < b.microseconds

----------------------------------------------------------------------------
(* Local policy checks.  Each yields "True" or the class of the exception   *)
(* it raises.                                                              *)

\* Fault variant: any bundle_id is accepted once the key is present
validate_device_AnyBundle(decoded_receipt, bundle_ids) ==
    IF ~Has(decoded_receipt, "bundle_id") THEN "InvalidReceipt"
    ELSE "True"

validate_device(decoded_receipt, bundle_ids) ==
    IF ~Has(decoded_receipt, "bundle_id") THEN "InvalidReceipt"
    ELSE IF decoded_receipt["bundle_id"] \notin bundle_ids THEN "InvalidReceipt"
    ELSE "True"

\* Fault variant: an entry without a product_id is let through
validate_product_MissingPasses(decoded_receipt, product_ids) ==
    LET in_app == Get(decoded_receipt, "in_app", <<>>)
    IN  IF \E i \in 1..Len(in_app) :
               /\ Has(in_app[i], "product_id")
               /\ in_app[i]["product_id"] \notin product_ids
        THEN "InvalidReceipt"
        ELSE "True"

validate_product(decoded_receipt, product_ids) ==
    LET in_app == Get(decoded_receipt, "in_app", <<>>)
    IN  IF \E i \in 1..Len(in_app) :
               \/ ~Has(in_app[i], "product_id")
               \/ in_app[i]["product_id"] \notin product_ids
        THEN "InvalidReceipt"
        ELSE "True"

\* Fault variant: a receipt marked as sandbox is refused in production mode
validate_production_receipt_RefusesSandbox(decoded_receipt) ==
    IF Get(decoded_receipt, "_sandbox", FALSE) THEN "InvalidReceipt"
    ELSE IF validate_device(decoded_receipt, {PRODUCTION_BUNDLE_ID}) # "True"
    THEN validate_device(decoded_receipt, {PRODUCTION_BUNDLE_ID})
    ELSE validate_product(decoded_receipt, PRODUCTION_PRODUCT_IDS)

validate_production_receipt(decoded_receipt) ==
    IF validate_device(decoded_receipt, {PRODUCTION_BUNDLE_ID}) # "True"
    THEN validate_device(decoded_receipt, {PRODUCTION_BUNDLE_ID})
    ELSE validate_product(decoded_receipt, PRODUCTION_PRODUCT_IDS)

\* Fault variant: the sandbox requirement is dropped
validate_debug_receipt_AnyEnvironment(decoded_receipt) ==
    LET bundle_ids == IF DEBUG_BUNDLE_ID # ""
                      THEN {DEBUG_BUNDLE_ID, PRODUCTION_BUNDLE_ID}
                      ELSE {PRODUCTION_BUNDLE_ID}
    IN  IF validate_device(decoded_receipt, bundle_ids) # "True"
        THEN validate_device(decoded_receipt, bundle_ids)
        ELSE validate_product(decoded_receipt,
                              DEBUG_PRODUCT_IDS \cup PRODUCTION_PRODUCT_IDS)

validate_debug_receipt(decoded_receipt) ==
    IF ~Get(decoded_receipt, "_sandbox", FALSE) THEN "InvalidReceipt"
    ELSE
        LET bundle_ids == IF DEBUG_BUNDLE_ID # ""
                          THEN {DEBUG_BUNDLE_ID, PRODUCTION_BUNDLE_ID}
                          ELSE {PRODUCTION_BUNDLE_ID}
        IN  IF validate_device(decoded_receipt, bundle_ids) # "True"
            THEN validate_device(decoded_receipt, bundle_ids)
            ELSE validate_product(decoded_receipt,
                                  DEBUG_PRODUCT_IDS \cup PRODUCTION_PRODUCT_IDS)

----------------------------------------------------------------------------
(* validate_receipt_is_active: the activity evaluation *)

\* product_id=None
None == "<None>"

\* delta_kwargs = {"minutes": 1} if is_test else {"days": 1}
grace_period(is_test) == IF is_test THEN timedelta(0, 1) ELSE timedelta(1, 0)

\* Fault variant: the cancellation test is missing
IsCancelled_Never(iap) == FALSE

\* `if iap.get("cancellation_date"): continue`
IsCancelled(iap) == Get(iap, "cancellation_date", "") # ""

\* Fault variant: the product filter is not applied
IsOtherProduct_Never(iap, product_id) == FALSE

\* `if product_id is not None and iap.get("product_id") != product_id: continue`
IsOtherProduct(iap, product_id) ==
    product_id # None /\ Get(iap, "product_id", None) # product_id

\* `expires_date_ms = int(iap.get("expires_date_ms", 0))` and `if expires_date_ms:`
HasExpiresDate(iap) == Get(iap, "expires_date_ms", 0) # 0

\* `datetime.datetime.utcnow() < expires_date + grace_period`
WithinWindow(utcnow, expires_date, grace) ==
    DatetimeLess(utcnow, DatetimeAdd(expires_date, grace))

\* The body of the loop for one entry: "continue" (skipped), "return" (active),
\* "next" (not active, the loop goes on) or "KeyError"
\* (iap["original_purchase_date_ms"] of an entry without that key).
IapOutcome(iap, period, grace, product_id, utcnow) ==
    IF IsCancelled(iap) THEN "continue"
    ELSE IF IsOtherProduct(iap, product_id) THEN "continue"
    ELSE IF HasExpiresDate(iap) THEN
        IF WithinWindow(utcnow, utcfromtimestamp(iap["expires_date_ms"]), grace)
        THEN "return" ELSE "next"
    ELSE IF ~Has(iap, "original_purchase_date_ms") THEN "KeyError"
    ELSE
        LET purchase_date == utcfromtimestamp(iap["original_purchase_date_ms"])
            expires_date == DatetimeAdd(purchase_date, period)
        IN  IF WithinWindow(utcnow, expires_date, grace) THEN "return" ELSE "next"

\* `for iap in iaps:` from entry i on, then the raise after the loop
RECURSIVE ActivityLoop(_, _, _, _, _, _)
ActivityLoop(iaps, i, period, grace, product_id, utcnow) ==
    IF i > Len(iaps) THEN "NoActiveReceiptException"
    ELSE
        LET out == IapOutcome(iaps[i], period, grace, product_id, utcnow)
        IN  IF out \in {"return", "KeyError"} THEN out
            ELSE ActivityLoop(iaps, i + 1, period, grace, product_id, utcnow)

\* Fault variant: an empty latest_receipt_info falls back to receipt.in_app
EvaluatedIaps_EmptyFallsBack(updated_content) ==
    IF Get(updated_content, "latest_receipt_info", <<>>) = <<>>
    THEN updated_content["receipt"]["in_app"]
    ELSE updated_content["latest_receipt_info"]

\* `updated_content.get("latest_receipt_info", updated_content["receipt"]["in_app"])`
EvaluatedIaps(updated_content) ==
    Get(updated_content, "latest_receipt_info", updated_content["receipt"]["in_app"])

\* Fault variant: an active entry is accepted before the policy check is
\* consulted
IsActiveTail_ActivityFirst(updated_content, a, utcnow) ==
    LET receipt == updated_content["receipt"]
        local_validation == IF a.is_test THEN validate_debug_receipt(receipt)
                            ELSE validate_production_receipt(receipt)
        out == ActivityLoop(EvaluatedIaps(updated_content), 1, a.timedelta,
                            grace_period(a.is_test), a.product_id, utcnow)
    IN  IF out = "return" THEN
            [result |-> Return(EmptyDict), stages |-> <<"policy", "activity">>]
        ELSE IF local_validation # "True" THEN
            [result |-> Raise(local_validation, EmptyDict), stages |-> <<"policy">>]
        ELSE
            [result |-> IF out = "KeyError" THEN Raise("KeyError", EmptyDict)
                        ELSE Raise("NoActiveReceiptException", updated_content),
             stages |-> <<"policy", "activity">>]

\* validate_receipt_is_active from the local policy check onwards
IsActiveTail(updated_content, a, utcnow) ==
    LET receipt == updated_content["receipt"]
        local_validation == IF a.is_test THEN validate_debug_receipt(receipt)
                            ELSE validate_production_receipt(receipt)
        out == ActivityLoop(EvaluatedIaps(updated_content), 1, a.timedelta,
                            grace_period(a.is_test), a.product_id, utcnow)
    IN  IF local_validation # "True" THEN
            [result |-> Raise(local_validation, EmptyDict), stages |-> <<"policy">>]
        ELSE
            [result |-> IF out = "return" THEN Return(EmptyDict)
                        ELSE IF out = "KeyError" THEN Raise("KeyError", EmptyDict)
                        ELSE Raise("NoActiveReceiptException", updated_content),
             stages |-> <<"policy", "activity">>]

----------------------------------------------------------------------------
(* Inputs: what the caller passes and what the endpoints answer *)

NowMs == 1000 * 1000 * 1000
Absent == 0 - 1

Field(k, present, v) == IF present THEN k :> v ELSE EmptyDict

\* a purchase entry as Apple's JSON gives it; t = <<expires_date_ms,
\* original_purchase_date_ms>>, Absent for a key the entry does not have
MkEntry(product_id, cancelled, t) ==
    Field("product_id", product_id # "", product_id)
    @@ Field("cancellation_date", cancelled, "2019-07-01 00:00:00 Etc/GMT")
    @@ Field("expires_date_ms", t[1] # Absent, t[1])
    @@ Field("original_purchase_date_ms", t[2] # Absent, t[2])

\* windows that are open under both grace periods
ActiveCombos ==
    {<<Absent, NowMs - 7 * DAY_MS - 1000>>, <<NowMs - 1000, Absent>>}

TimeCombos ==
    ActiveCombos \cup
    {<<Absent, Absent>>,
     <<Absent, NowMs - 9 * DAY_MS>>,
     <<Absent, NowMs - 7 * DAY_MS - MINUTE_MS>>,
     <<0, NowMs - 7 * DAY_MS - 1000>>,
     <<NowMs - 2 * DAY_MS, NowMs - 7 * DAY_MS - 1000>>,
     <<NowMs - MINUTE_MS, Absent>>}

EvalEntries ==
    {MkEntry("A", FALSE, t) : t \in TimeCombos}
    \cup {MkEntry("B", FALSE, t) : t \in ActiveCombos}
    \cup {MkEntry("A", TRUE, t) : t \in ActiveCombos}
    \cup {MkEntry("X", FALSE, <<NowMs - 1000, Absent>>)}

Lists(S, n) == UNION {[1..k -> S] : k \in 0..n}

ActiveEntry == MkEntry("A", FALSE, <<NowMs - 1000, Absent>>)
LapsedEntry == MkEntry("A", FALSE, <<NowMs - 2 * DAY_MS, Absent>>)

MkReceipt(bundle_id, in_app) == [bundle_id |-> bundle_id, in_app |-> in_app]

Ok(content) == [status_code |-> 200, json_ok |-> TRUE, content |-> content]
NotJson(code) == [status_code |-> code, json_ok |-> FALSE, content |-> EmptyDict]
NoResponse == NotJson(0)

\* answers that exercise the activity evaluation
EvalResponses ==
    {Ok([status |-> 0, receipt |-> MkReceipt(PRODUCTION_BUNDLE_ID, l)]) :
        l \in Lists(EvalEntries, MaxEntries)}
    \cup {Ok([status |-> 0,
              receipt |-> MkReceipt(PRODUCTION_BUNDLE_ID, <<ActiveEntry>>),
              latest_receipt_info |-> l]) :
        l \in Lists(EvalEntries, MaxEntries)}
    \cup {Ok([status |-> APPSTORE_STATUS_TEST_ENVIRONMENT_RECEIPT])}

Statuses ==
    {0, 1, 0 - 1, 21001, 21099, 21150, 21200,
     APPSTORE_STATUS_INVALID_JSON, APPSTORE_STATUS_MALFORMED_RECEIPT_DATA,
     APPSTORE_STATUS_RECEIPT_AUTHENTICATION, APPSTORE_STATUS_SHARED_SECRET_MISMATCH,
     APPSTORE_STATUS_RECEIPT_SERVER_DOWN, APPSTORE_STATUS_EXPIRED_SUBSCRIPTION,
     APPSTORE_STATUS_TEST_ENVIRONMENT_RECEIPT, APPSTORE_STATUS_PROD_ENVIRONMENT_RECEIPT,
     APPSTORE_STATUS_UNAUTHORIZED_RECEIPT, STATUS_INTERNAL_APPLE_ERROR,
     APPSTORE_STATUS_INTERNAL_DATA_ACCESS_ERROR_MIN,
     APPSTORE_STATUS_INTERNAL_DATA_ACCESS_ERROR_MAX}

GoodReceipt == MkReceipt(PRODUCTION_BUNDLE_ID, <<ActiveEntry>>)

\* the receipt objects of the protocol answers; latest_receipt is base64 text
ProtocolReceipts ==
    {EmptyDict,
     [bundle_id |-> PRODUCTION_BUNDLE_ID],
     MkReceipt(PRODUCTION_BUNDLE_ID, <<>>),
     GoodReceipt,
     MkReceipt(PRODUCTION_BUNDLE_ID, <<LapsedEntry>>),
     MkReceipt("com.other.app", <<ActiveEntry>>),
     Put(GoodReceipt, "latest_receipt", b64encode(<<77, 97>>)),
     Put(GoodReceipt, "latest_receipt", <<19, 22, 5>>)}

ProtocolContents ==
    {[status |-> s] : s \in Statuses}
    \cup {[status |-> s, receipt |-> GoodReceipt] : s \in Statuses}
    \cup {[status |-> 0, receipt |-> r] : r \in ProtocolReceipts}
    \cup {EmptyDict, [receipt |-> GoodReceipt]}

\* answers that exercise the status protocol and the transport
ProtocolResponses ==
    {Ok(c) : c \in ProtocolContents}
    \cup {NotJson(code) : code \in {200, 304, 404, 503}}
    \cup {[status_code |-> code, json_ok |-> TRUE, content |-> c] :
            code \in {304, 404, 503},
            c \in {[status |-> 0, receipt |-> GoodReceipt],
                   [status |-> APPSTORE_STATUS_RECEIPT_SERVER_DOWN],
                   [status |-> APPSTORE_STATUS_TEST_ENVIRONMENT_RECEIPT]}}

Arguments(data, period, is_test, product_id) ==
    [data |-> data, timedelta |-> period, is_test |-> is_test, product_id |-> product_id]

Datas == {<<77>>, <<77, 97, 110, 33>>}

ProtocolCalls ==
    {[entry |-> "validate_receipt_with_apple",
      args |-> Arguments(d, timedelta(7, 0), FALSE, None)] : d \in Datas}
    \cup {[entry |-> "validate_receipt_is_active",
           args |-> Arguments(d, timedelta(7, 0), t, None)] :
            d \in Datas, t \in BOOLEAN}

EvalCalls ==
    {[entry |-> "validate_receipt_is_active",
      args |-> Arguments(<<77>>, timedelta(p, 0), t, f)] :
        p \in {7, 8}, t \in BOOLEAN, f \in {None, "A"}}

----------------------------------------------------------------------------
(* The state machine *)

InitCall(secrets) ==
    /\ pc = "idle"
    /\ entry = ""
    /\ args = Arguments(<<>>, timedelta(0, 0), FALSE, None)
    /\ secret \in secrets
    /\ attempt = 0
    /\ url = ""
    /\ payload = EmptyDict
    /\ requests = <<>>
    /\ last_response = NoResponse
    /\ apple_results = <<>>
    /\ stages = <<>>
    /\ now = utcfromtimestamp(0)
    /\ result = NoResult

\* no call of the receipt parser is running
InitWith(secrets) == InitCall(secrets) /\ threads = <<>>

Post(to, body, n) == [url |-> to, payload |-> body, attempt |-> n]

\* A public function is called: validate_receipt_with_apple builds the payload
\* and POSTs it to the production endpoint.
Call(c) ==
    /\ pc = "idle"
    /\ pc' = "wait"
    /\ entry' = c.entry
    /\ args' = c.args
    /\ attempt' = 1
    /\ url' = PRODUCTION_VERIFICATION_URL
    /\ payload' = Payload(c.args.data, secret)
    /\ requests' = <<Post(PRODUCTION_VERIFICATION_URL, Payload(c.args.data, secret), 1)>>
    /\ UNCHANGED <<secret, last_response, apple_results, stages, now, result, threads>>

\* Fault variant: the retry is itself retried once more
CatchesRetry_Twice(function, n, step) ==
    /\ function = "validate_receipt_is_active"
    /\ n <= 2
    /\ step.kind = "raise"
    /\ IsInstance(step.exc, "RetryReceiptValidation")

\* Fault variant: `except ReceiptValidationException:`
CatchesRetry_AnyValidationError(function, n, step) ==
    /\ function = "validate_receipt_is_active"
    /\ n = 1
    /\ step.kind = "raise"
    /\ IsInstance(step.exc, "ReceiptValidationException")

\* `except RetryReceiptValidation:` around the first invocation only
CatchesRetry(function, n, step) ==
    /\ function = "validate_receipt_is_active"
    /\ n = 1
    /\ step.kind = "raise"
    /\ IsInstance(step.exc, "RetryReceiptValidation")

\* The pending POST is answered with r and the call runs on to its next POST
\* or to its end.
Receive(r, py, utcnow) ==
    /\ pc = "wait"
    /\ last_response' = r
    /\ LET step == EndpointIteration(r, url = PRODUCTION_VERIFICATION_URL, py)
           tail == IsActiveTail(step.value, args, utcnow)
       IN  IF step.kind = "continue" /\ url # PRODUCTION_VERIFICATION_URL THEN
               \* no url is left: validate_receipt_with_apple returns None, and
               \* validate_receipt_is_active subscripts it
               /\ apple_results' = Append(apple_results, ReturnNone)
               /\ result' = IF entry = "validate_receipt_with_apple" THEN ReturnNone
                             ELSE Raise("TypeError", EmptyDict)
               /\ pc' = "done"
               /\ UNCHANGED <<attempt, url, payload, requests, stages, now>>
           ELSE IF step.kind = "continue" THEN
               /\ url' = SANDBOX_VERIFICATION_URL
               /\ requests' = Append(requests, Post(SANDBOX_VERIFICATION_URL, payload, attempt))
               /\ UNCHANGED <<pc, attempt, payload, apple_results, stages, now, result>>
           ELSE IF CatchesRetry(entry, attempt, step) THEN
               /\ apple_results' = Append(apple_results, step)
               /\ attempt' = attempt + 1
               /\ url' = PRODUCTION_VERIFICATION_URL
               /\ payload' = Payload(args.data, secret)
               /\ requests' = Append(requests,
                                     Post(PRODUCTION_VERIFICATION_URL,
                                          Payload(args.data, secret), attempt + 1))
               /\ UNCHANGED <<pc, stages, now, result>>
           ELSE IF step.kind = "raise" \/ entry = "validate_receipt_with_apple" THEN
               /\ apple_results' = Append(apple_results, step)
               /\ result' = step
               /\ pc' = "done"
               /\ UNCHANGED <<attempt, url, payload, requests, stages, now>>
           ELSE
               /\ apple_results' = Append(apple_results, step)
               /\ result' = tail.result
               /\ stages' = tail.stages
               /\ now' = utcnow
               /\ pc' = "done"
               /\ UNCHANGED <<attempt, url, payload, requests>>
    /\ UNCHANGED <<entry, args, secret, threads>>

PythonVersions == {2, 3}
Nows == {utcfromtimestamp(NowMs)}

Init == InitWith({"", "s3cr3t"})

Next ==
    \/ \E c \in ProtocolCalls : Call(c)
    \/ \E r \in ProtocolResponses, py \in PythonVersions, t \in Nows : Receive(r, py, t)

Spec == Init /\ [][Next]_vars

InitEval == InitWith({""})

NextEval ==
    \/ \E c \in EvalCalls : Call(c)
    \/ \E r \in EvalResponses, py \in PythonVersions, t \in Nows : Receive(r, py, t)

SpecEval == InitEval /\ [][NextEval]_vars

----------------------------------------------------------------------------
(* Properties of the remote validation client *)

Last(q) == q[Len(q)]
Range(q) == {q[i] : i \in 1..Len(q)}

NoStatus == 0 - 2

\* the status an endpoint answered with: the response passed the HTTP check,
\* its body parsed and carries a status
StatusOf(r) ==
    IF r.status_code \notin 400..599 /\ r.json_ok /\ Has(r.content, "status")
    THEN r.content["status"]
    ELSE NoStatus

FatalStatuses == {21000, 21002, 21003, 21004, 21006, 21008}
NamedStatuses == {0, 21000, 21002, 21003, 21004, 21005, 21006, 21007, 21008, 21009, 21010}
                 \cup (21100..21199)
TransientStatuses ==
    {21005, 21009} \cup (21100..21199)
    \cup {s \in Statuses : s # 0 /\ s \notin NamedStatuses}

\* the step being taken is the arrival of an answer
Answering == pc = "wait"

\* the running validate_receipt_with_apple invocation ends in this step
InvocationEnds == Len(apple_results') = Len(apple_results) + 1

\* C1: when an endpoint (production or sandbox) answers 21000, 21002, 21003,
\* 21004, 21006 or 21008, the invocation ends by raising
\* ReceiptValidationException itself (not one of its subclasses) and no further
\* request is sent.
C1_FatalStatuses ==
    [][(Answering /\ StatusOf(last_response') \in FatalStatuses) =>
        /\ InvocationEnds
        /\ Last(apple_results').kind = "raise"
        /\ Last(apple_results').exc = "ReceiptValidationException"
        /\ requests' = requests
        /\ pc' = "done"
        /\ result' = Last(apple_results')]_vars

C1_Witness ==
    /\ pc = "done"
    /\ StatusOf(last_response) = 21006
    /\ Last(requests).url = SANDBOX_VERIFICATION_URL
    /\ result.exc = "ReceiptValidationException"

\* C2: a status of 21005, 21009, 21100..21199 or any non-zero value the table
\* does not name makes the invocation raise RetryReceiptValidation, whichever
\* endpoint answered.
C2_TransientStatuses ==
    [][(Answering /\ StatusOf(last_response') \in TransientStatuses) =>
        /\ InvocationEnds
        /\ Last(apple_results') =
              Raise("RetryReceiptValidation", last_response'.content)]_vars

C2_Witness ==
    /\ pc = "done"
    /\ entry = "validate_receipt_with_apple"
    /\ StatusOf(last_response) = 21001
    /\ Last(requests).url = SANDBOX_VERIFICATION_URL
    /\ result.exc = "RetryReceiptValidation"

\* the two situations of C3
NoPurchasesSituation(r) ==
    \/ StatusOf(r) = 21010
    \/ /\ StatusOf(r) = 0
       /\ Has(r.content, "receipt")
       /\ DOMAIN r.content["receipt"] # {}
       /\ Len(Get(r.content["receipt"], "in_app", <<>>)) = 0

\* C3: an invocation raises NoPurchasesException exactly when the answering
\* endpoint returned 21010, or returned 0 with a non-empty receipt whose in_app
\* is missing or empty; the exception is not a RetryReceiptValidation, so
\* validate_receipt_is_active does not retry after it.
C3_NoPurchases ==
    [][Answering =>
        /\ (InvocationEnds /\ Last(apple_results').exc = "NoPurchasesException")
              <=> NoPurchasesSituation(last_response')
        /\ NoPurchasesSituation(last_response') =>
              /\ requests' = requests
              /\ pc' = "done"
              /\ result'.exc = "NoPurchasesException"]_vars

C3_Witness ==
    /\ pc = "done"
    /\ entry = "validate_receipt_is_active"
    /\ StatusOf(last_response) = 0
    /\ Has(last_response.content, "receipt")
    /\ ~Has(last_response.content["receipt"], "in_app")
    /\ Len(requests) = 1
    /\ result.exc = "NoPurchasesException"

\* C4: an invocation returns a value only when the endpoint contacted last
\* answered 0 with a non-empty receipt and a non-empty receipt.in_app; every
\* other invocation raises: none returns a non-zero status, none runs out of
\* the endpoint loop returning None.
C4_ReturnsOnlySuccess ==
    /\ \A i \in 1..Len(apple_results) : apple_results[i].kind \in {"raise", "return"}
    /\ \A i \in 1..Len(apple_results) :
          apple_results[i].kind = "return" =>
              /\ i = Len(apple_results)
              /\ pc = "done"
              /\ StatusOf(last_response) = 0
              /\ apple_results[i].value["status"] = 0
              /\ DOMAIN last_response.content["receipt"] # {}
              /\ Len(Get(last_response.content["receipt"], "in_app", <<>>)) > 0
    /\ (pc = "done" /\ entry = "validate_receipt_with_apple") =>
          result = Last(apple_results)

C4_Witness ==
    /\ pc = "done"
    /\ entry = "validate_receipt_with_apple"
    /\ result.kind = "return"
    /\ Last(requests).url = SANDBOX_VERIFICATION_URL

\* requests i and i+1 belong to the same invocation
SameInvocation(i) == requests[i].attempt = requests[i + 1].attempt

\* C5: in one invocation the production endpoint is contacted first; 21007 from
\* production triggers exactly one more POST, to the sandbox endpoint, with the
\* identical payload; 21007 from the sandbox endpoint raises a fatal
\* ReceiptValidationException with no further request; production is never
\* contacted after sandbox.
C5_EndpointOrder ==
    /\ [](/\ \A i \in 1..Len(requests) :
                (i = 1 \/ requests[i].attempt # requests[i - 1].attempt)
                    => requests[i].url = PRODUCTION_VERIFICATION_URL
          /\ \A i \in 1..(Len(requests) - 1) :
                SameInvocation(i) =>
                    /\ requests[i].url = PRODUCTION_VERIFICATION_URL
                    /\ requests[i + 1].url = SANDBOX_VERIFICATION_URL
                    /\ requests[i + 1].payload = requests[i].payload)
    /\ [][(Answering /\ StatusOf(last_response') = 21007) =>
            IF url = PRODUCTION_VERIFICATION_URL
            THEN /\ requests' = Append(requests,
                                       [url |-> SANDBOX_VERIFICATION_URL,
                                        payload |-> Last(requests).payload,
                                        attempt |-> Last(requests).attempt])
                 /\ Last(requests).url = PRODUCTION_VERIFICATION_URL
                 /\ pc' = "wait"
            ELSE /\ requests' = requests
                 /\ InvocationEnds
                 /\ Last(apple_results').kind = "raise"
                 /\ Last(apple_results').exc = "ReceiptValidationException"
                 /\ pc' = "done"]_vars

C5_Witness ==
    /\ pc = "done"
    /\ Len(requests) = 2
    /\ requests[1].url = PRODUCTION_VERIFICATION_URL
    /\ requests[2].url = SANDBOX_VERIFICATION_URL
    /\ Has(requests[2].payload, "password")
    /\ StatusOf(last_response) = 21007
    /\ result.exc = "ReceiptValidationException"

----------------------------------------------------------------------------
(* Properties of validate_receipt_is_active *)

IsActiveCall == entry = "validate_receipt_is_active"

RequestsOf(n) == {i \in 1..Len(requests) : requests[i].attempt = n}

\* C6 as stated: one call of validate_receipt_is_active sends at most two
\* HTTP requests in total.
C6_AtMostTwoRequests == IsActiveCall => Len(requests) <= 2

\* C6, amended: one call of validate_receipt_is_active sends at most four
\* HTTP requests: at most two invocations of validate_receipt_with_apple (the
\* original and one retry), each sending at most two (production, then one
\* sandbox fallback).
C6_AtMostFourRequests ==
    IsActiveCall =>
        /\ Len(requests) <= 4
        /\ \A i \in 1..Len(requests) : requests[i].attempt \in {1, 2}
        /\ \A n \in {1, 2} : Cardinality(RequestsOf(n)) <= 2

C6_Witness ==
    /\ IsActiveCall
    /\ pc = "done"
    /\ Len(requests) = 4

IsRetry(step) == step.kind = "raise" /\ step.exc = "RetryReceiptValidation"

\* C7: validate_receipt_is_active invokes validate_receipt_with_apple a second
\* time if and only if the first invocation raised RetryReceiptValidation, and
\* never a third time; when the second invocation raises it too, the exception
\* reaches the caller and neither the policy check nor the activity evaluation
\* runs.
C7_SingleRetry ==
    IsActiveCall =>
        /\ \A i \in 1..Len(requests) : requests[i].attempt \in {1, 2}
        /\ Len(apple_results) <= 2
        /\ (RequestsOf(2) # {}) <=> (Len(apple_results) >= 1 /\ IsRetry(apple_results[1]))
        /\ (Len(apple_results) = 2 /\ IsRetry(apple_results[2])) =>
              /\ pc = "done"
              /\ result = apple_results[2]
              /\ stages = <<>>

C7_Witness ==
    /\ IsActiveCall
    /\ pc = "done"
    /\ Len(apple_results) = 2
    /\ IsRetry(apple_results[1])
    /\ IsRetry(apple_results[2])
    /\ result.exc = "RetryReceiptValidation"

\* a non-2xx HTTP response, or a body that is not parsable JSON
TransportFailure(r) == r.status_code \notin 200..299 \/ ~r.json_ok

\* C8 as stated: a transport failure from either endpoint is fatal: the call
\* ends with an error that is not a RetryReceiptValidation, no request goes to
\* the other endpoint and validate_receipt_is_active does not retry.
C8_TransportFailureFatal ==
    [][(Answering /\ TransportFailure(last_response')) =>
        /\ pc' = "done"
        /\ result'.kind = "raise"
        /\ ~IsInstance(result'.exc, "RetryReceiptValidation")
        /\ requests' = requests]_vars

----------------------------------------------------------------------------
(* Properties of the activity evaluation, in milliseconds since the epoch *)

ActivityRan == pc = "done" /\ stages = <<"policy", "activity">>

Evaluated == EvaluatedIaps(last_response.content)

GraceMs == IF args.is_test THEN 60 * 1000 ELSE 24 * 60 * 60 * 1000
PeriodMs == args.timedelta.days * 24 * 60 * 60 * 1000 + args.timedelta.seconds * 1000

Cancelled(iap) == Has(iap, "cancellation_date")
PassesFilter(iap) ==
    args.product_id = None \/ (Has(iap, "product_id") /\ iap["product_id"] = args.product_id)

\* E of C9: the entry's expires_date when it carries one, else
\* original_purchase_date + period
CarriesWindow(iap) == Has(iap, "expires_date_ms") \/ Has(iap, "original_purchase_date_ms")
ExpiryMs(iap) ==
    IF Has(iap, "expires_date_ms") THEN iap["expires_date_ms"]
    ELSE iap["original_purchase_date_ms"] + PeriodMs

\* C9 as stated: an uncancelled entry that passes the product filter is active
\* exactly when now < E + grace, with E its expires_date when it carries one
\* and original_purchase_date + period otherwise, and grace 1 day (1 minute
\* when is_test); the call returns exactly when some such entry is active.
C9_ActiveWindow ==
    (/\ ActivityRan
     /\ \A i \in 1..Len(Evaluated) :
           (~Cancelled(Evaluated[i]) /\ PassesFilter(Evaluated[i]))
               => CarriesWindow(Evaluated[i]))
    => (result.kind = "return" <=>
           \E i \in 1..Len(Evaluated) :
               /\ ~Cancelled(Evaluated[i])
               /\ PassesFilter(Evaluated[i])
               /\ NowMs < ExpiryMs(Evaluated[i]) + GraceMs)

\* some window of the entry, explicit or computed from the period, is open
OpenWindow(iap) ==
    \/ Has(iap, "expires_date_ms") /\ NowMs < iap["expires_date_ms"] + GraceMs
    \/ /\ Has(iap, "original_purchase_date_ms")
       /\ NowMs < iap["original_purchase_date_ms"] + PeriodMs + GraceMs

\* C10: an entry with a cancellation_date never makes the receipt active,
\* whatever its dates: a normal return rests on an uncancelled entry, and when
\* every evaluated entry is cancelled the call raises NoActiveReceiptException.
C10_CancelledNeverActive ==
    ActivityRan =>
        /\ result.kind = "return" =>
              \E i \in 1..Len(Evaluated) :
                  ~Cancelled(Evaluated[i]) /\ OpenWindow(Evaluated[i])
        /\ (\A i \in 1..Len(Evaluated) : Cancelled(Evaluated[i])) =>
              result = Raise("NoActiveReceiptException", apple_results[Len(apple_results)].value)

C10_Witness ==
    /\ ActivityRan
    /\ Len(Evaluated) = 2
    /\ \A i \in 1..Len(Evaluated) : Cancelled(Evaluated[i]) /\ OpenWindow(Evaluated[i])
    /\ Has(Evaluated[1], "expires_date_ms")
    /\ ~Has(Evaluated[2], "expires_date_ms")
    /\ result.exc = "NoActiveReceiptException"

\* the window the loop body tests for the entry is open
StrictOpen(iap) ==
    IF Get(iap, "expires_date_ms", 0) # 0
    THEN NowMs < iap["expires_date_ms"] + GraceMs
    ELSE /\ Has(iap, "original_purchase_date_ms")
         /\ NowMs < iap["original_purchase_date_ms"] + PeriodMs + GraceMs

MatchesFilter(iap) == Has(iap, "product_id") /\ iap["product_id"] = args.product_id

\* C11: with a product_id filter, entries of another product are ignored even
\* inside their window: the call returns only if an uncancelled entry of
\* exactly that product has an open window, and raises NoActiveReceiptException
\* when no uncancelled entry is of that product; with no filter every
\* uncancelled entry is considered.
C11_ProductFilter ==
    ActivityRan =>
        /\ (args.product_id # None /\ result.kind = "return") =>
              \E i \in 1..Len(Evaluated) :
                  /\ ~Cancelled(Evaluated[i])
                  /\ MatchesFilter(Evaluated[i])
                  /\ OpenWindow(Evaluated[i])
        /\ (/\ args.product_id # None
            /\ \A i \in 1..Len(Evaluated) :
                  Cancelled(Evaluated[i]) \/ ~MatchesFilter(Evaluated[i])) =>
              result.exc = "NoActiveReceiptException"
        /\ (args.product_id = None /\ result.exc = "NoActiveReceiptException") =>
              \A i \in 1..Len(Evaluated) :
                  Cancelled(Evaluated[i]) \/ ~StrictOpen(Evaluated[i])

C11_Witness ==
    /\ ActivityRan
    /\ args.product_id = "A"
    /\ Len(Evaluated) = 2
    /\ \A i \in 1..Len(Evaluated) :
          /\ ~Cancelled(Evaluated[i])
          /\ Evaluated[i]["product_id"] \in {"B", "X"}
          /\ StrictOpen(Evaluated[i])
    /\ result.exc = "NoActiveReceiptException"

\* an entry the loop evaluates (uncancelled, passing the filter) whose window
\* is open
ActiveEntryAt(i) ==
    /\ ~Cancelled(Evaluated[i])
    /\ PassesFilter(Evaluated[i])
    /\ StrictOpen(Evaluated[i])

\* C12: once remote validation and the local policy check have succeeded,
\* validate_receipt_is_active raises NoActiveReceiptException if and only if
\* no evaluated entry is active; the exception carries the content returned by
\* validate_receipt_with_apple, and nothing further happens in the call.
C12_NoActiveIff ==
    ActivityRan =>
        /\ (result.kind = "raise" /\ result.exc = "NoActiveReceiptException")
              <=> ~ \E i \in 1..Len(Evaluated) : ActiveEntryAt(i)
        /\ result.exc = "NoActiveReceiptException" =>
              /\ result.value = Last(apple_results).value
              /\ ~ENABLED Next

----------------------------------------------------------------------------
(* The local policy checks applied on their own, and inside               *)
(* validate_receipt_is_active, to receipts of every shape                 *)

\* the message of the InvalidReceipt a policy check raises, "" when it passes
validate_device_message(decoded_receipt, bundle_ids) ==
    IF ~Has(decoded_receipt, "bundle_id") THEN "Unknown decoded receipt format!"
    ELSE IF decoded_receipt["bundle_id"] \notin bundle_ids
    THEN "Unexpected bundle_id in decoded receipt {}"
    ELSE ""

validate_product_message(decoded_receipt, product_ids) ==
    LET in_app == Get(decoded_receipt, "in_app", <<>>)
        bad == {i \in 1..Len(in_app) :
                   \/ ~Has(in_app[i], "product_id")
                   \/ in_app[i]["product_id"] \notin product_ids}
        first == CHOOSE i \in bad : \A j \in bad : i <= j
    IN  IF bad = {} THEN ""
        ELSE IF ~Has(in_app[first], "product_id") THEN "Unknown decoded receipt format!"
        ELSE "Unexpected product_id in decoded receipt {}"

validate_production_receipt_message(decoded_receipt) ==
    IF validate_device(decoded_receipt, {PRODUCTION_BUNDLE_ID}) # "True"
    THEN validate_device_message(decoded_receipt, {PRODUCTION_BUNDLE_ID})
    ELSE validate_product_message(decoded_receipt, PRODUCTION_PRODUCT_IDS)

validate_debug_receipt_message(decoded_receipt) ==
    LET bundle_ids == IF DEBUG_BUNDLE_ID # ""
                      THEN {DEBUG_BUNDLE_ID, PRODUCTION_BUNDLE_ID}
                      ELSE {PRODUCTION_BUNDLE_ID}
    IN  IF ~Get(decoded_receipt, "_sandbox", FALSE)
        THEN "Debug receipts must be in the sandbox!"
        ELSE IF validate_device(decoded_receipt, bundle_ids) # "True"
        THEN validate_device_message(decoded_receipt, bundle_ids)
        ELSE validate_product_message(decoded_receipt,
                                      DEBUG_PRODUCT_IDS \cup PRODUCTION_PRODUCT_IDS)

\* purchase entries of allowed, debug-only and unknown products, and one
\* without a product_id, inside their window; and a lapsed one
PolicyEntries ==
    {MkEntry(p, FALSE, <<NowMs - 1000, Absent>>) : p \in {"A", "B", "D", "X", ""}}
    \cup {LapsedEntry}

\* in_app lists, each marked present; and the receipt without the key
InAppFields ==
    {<<TRUE, l>> : l \in Lists(PolicyEntries, MaxEntries)} \cup {<<FALSE, <<>>>>}

PolicyReceipts ==
    {Field("bundle_id", b # "", b)
     @@ Field("_sandbox", s # "absent", s = "true")
     @@ Field("in_app", f[1], f[2]) :
        b \in {"", PRODUCTION_BUNDLE_ID, DEBUG_BUNDLE_ID, "com.other.app"},
        s \in {"absent", "true", "false"},
        f \in InAppFields}

BundleIdLists == {{PRODUCTION_BUNDLE_ID}, {DEBUG_BUNDLE_ID, PRODUCTION_BUNDLE_ID}}
ProductIdSets == {PRODUCTION_PRODUCT_IDS, DEBUG_PRODUCT_IDS \cup PRODUCTION_PRODUCT_IDS}

PolicyArguments(decoded_receipt, ids) == [decoded_receipt |-> decoded_receipt, ids |-> ids]

\* a function called on its own runs to its end
Applied(function, a, outcome, message, returned) ==
    /\ pc' = "done"
    /\ entry' = function
    /\ args' = a
    /\ result' = IF outcome = "True" THEN returned ELSE Raise(outcome, message)
    /\ UNCHANGED <<secret, attempt, url, payload, requests, last_response,
                   apple_results, stages, now, threads>>

ValidateDevice(r, ids) ==
    /\ pc = "idle"
    /\ Applied("validate_device", PolicyArguments(r, ids), validate_device(r, ids),
               validate_device_message(r, ids), Return(TRUE))

ValidateProduct(r, ids) ==
    /\ pc = "idle"
    /\ Applied("validate_product", PolicyArguments(r, ids), validate_product(r, ids),
               validate_product_message(r, ids), Return(TRUE))

ValidateProductionReceipt(r) ==
    /\ pc = "idle"
    /\ Applied("validate_production_receipt", PolicyArguments(r, {}),
               validate_production_receipt(r),
               validate_production_receipt_message(r), ReturnNone)

ValidateDebugReceipt(r) ==
    /\ pc = "idle"
    /\ Applied("validate_debug_receipt", PolicyArguments(r, {}),
               validate_debug_receipt(r),
               validate_debug_receipt_message(r), ReturnNone)

PolicyCalls ==
    {[entry |-> "validate_receipt_is_active",
      args |-> Arguments(<<77>>, timedelta(7, 0), t, None)] : t \in BOOLEAN}
    \cup {[entry |-> "validate_receipt_with_apple",
           args |-> Arguments(<<77>>, timedelta(7, 0), FALSE, None)]}

PolicyResponses ==
    {Ok([status |-> 0, receipt |-> r]) : r \in PolicyReceipts}
    \cup {Ok([status |-> APPSTORE_STATUS_TEST_ENVIRONMENT_RECEIPT])}

InitPolicy == InitWith({""})

NextPolicy ==
    \/ \E r \in PolicyReceipts, ids \in BundleIdLists : ValidateDevice(r, ids)
    \/ \E r \in PolicyReceipts, ids \in ProductIdSets : ValidateProduct(r, ids)
    \/ \E r \in PolicyReceipts : ValidateProductionReceipt(r)
    \/ \E r \in PolicyReceipts : ValidateDebugReceipt(r)
    \/ \E c \in PolicyCalls : Call(c)
    \/ \E r \in PolicyResponses, py \in PythonVersions, t \in Nows : Receive(r, py, t)

SpecPolicy == InitPolicy /\ [][NextPolicy]_vars

----------------------------------------------------------------------------
(* Properties of the local policy checks *)

AppliedAlone(function) == pc = "done" /\ entry = function

\* validate_receipt_is_active reached the local policy check
PolicyRan == pc = "done" /\ entry = "validate_receipt_is_active" /\ stages # <<>>

CheckedReceipt ==
    IF entry = "validate_receipt_is_active" THEN Last(apple_results).value["receipt"]
    ELSE args.decoded_receipt

RaisedInvalidReceipt == result.kind = "raise" /\ result.exc = "InvalidReceipt"

AllowedBundleIds(debug) ==
    IF debug THEN {PRODUCTION_BUNDLE_ID, DEBUG_BUNDLE_ID} ELSE {PRODUCTION_BUNDLE_ID}

BundleAllowed(receipt, ids) == Has(receipt, "bundle_id") /\ receipt["bundle_id"] \in ids

\* C13: validate_production_receipt and validate_debug_receipt raise
\* InvalidReceipt for every receipt whose bundle_id is absent or outside the
\* allowed set (the production id; the production and the debug id in debug
\* mode), also when in_app is empty; validate_device returns True only for a
\* member of the given list.
C13_BundleChecked ==
    /\ AppliedAlone("validate_device") =>
          /\ result = Return(TRUE) <=> BundleAllowed(CheckedReceipt, args.ids)
          /\ result # Return(TRUE) => RaisedInvalidReceipt
    /\ (AppliedAlone("validate_production_receipt")
            /\ ~BundleAllowed(CheckedReceipt, AllowedBundleIds(FALSE))) =>
          RaisedInvalidReceipt
    /\ (AppliedAlone("validate_debug_receipt")
            /\ ~BundleAllowed(CheckedReceipt, AllowedBundleIds(TRUE))) =>
          RaisedInvalidReceipt
    /\ (PolicyRan /\ ~BundleAllowed(CheckedReceipt, AllowedBundleIds(args.is_test))) =>
          RaisedInvalidReceipt /\ stages = <<"policy">>

C13_Witness ==
    /\ AppliedAlone("validate_production_receipt")
    /\ Has(CheckedReceipt, "bundle_id")
    /\ CheckedReceipt["bundle_id"] = DEBUG_BUNDLE_ID
    /\ Has(CheckedReceipt, "in_app")
    /\ CheckedReceipt["in_app"] = <<>>
    /\ RaisedInvalidReceipt

ProductsAllowed(receipt, ids) ==
    \A i \in 1..Len(Get(receipt, "in_app", <<>>)) :
        /\ Has(receipt["in_app"][i], "product_id")
        /\ receipt["in_app"][i]["product_id"] \in ids

AllowedProductIds(debug) ==
    IF debug THEN DEBUG_PRODUCT_IDS \cup PRODUCTION_PRODUCT_IDS ELSE PRODUCTION_PRODUCT_IDS

\* C14: validate_product passes exactly when every in_app entry has a
\* product_id in the allowed set (the production set; the union of the debug
\* and production sets in debug mode): zero entries pass, one unknown or
\* missing product_id raises InvalidReceipt.
C14_ProductsChecked ==
    /\ AppliedAlone("validate_product") =>
          /\ result = Return(TRUE) <=> ProductsAllowed(CheckedReceipt, args.ids)
          /\ result # Return(TRUE) => RaisedInvalidReceipt
    /\ (AppliedAlone("validate_production_receipt")
            /\ BundleAllowed(CheckedReceipt, AllowedBundleIds(FALSE))) =>
          /\ result = ReturnNone <=> ProductsAllowed(CheckedReceipt, AllowedProductIds(FALSE))
          /\ result # ReturnNone => RaisedInvalidReceipt
    /\ (AppliedAlone("validate_debug_receipt")
            /\ Get(CheckedReceipt, "_sandbox", FALSE)
            /\ BundleAllowed(CheckedReceipt, AllowedBundleIds(TRUE))) =>
          /\ result = ReturnNone <=> ProductsAllowed(CheckedReceipt, AllowedProductIds(TRUE))
          /\ result # ReturnNone => RaisedInvalidReceipt
    /\ (PolicyRan /\ ~ProductsAllowed(CheckedReceipt, AllowedProductIds(args.is_test))) =>
          RaisedInvalidReceipt /\ stages = <<"policy">>

C14_Witness ==
    /\ AppliedAlone("validate_product")
    /\ args.ids = PRODUCTION_PRODUCT_IDS
    /\ Len(Get(CheckedReceipt, "in_app", <<>>)) = 2
    /\ Has(CheckedReceipt["in_app"][1], "product_id")
    /\ CheckedReceipt["in_app"][1]["product_id"] = "A"
    /\ ~Has(CheckedReceipt["in_app"][2], "product_id")
    /\ RaisedInvalidReceipt

\* C15: validate_debug_receipt rejects with InvalidReceipt every receipt whose
\* _sandbox is false or absent, before and whatever the bundle and product
\* checks would say; so validate_receipt_is_active with is_test=True never
\* returns normally for a receipt the production endpoint answered.
C15_DebugNeedsSandbox ==
    /\ (AppliedAlone("validate_debug_receipt")
            /\ ~Get(CheckedReceipt, "_sandbox", FALSE)) =>
          result = Raise("InvalidReceipt", "Debug receipts must be in the sandbox!")
    /\ (pc = "done" /\ entry = "validate_receipt_is_active" /\ args.is_test
            /\ Last(requests).url = PRODUCTION_VERIFICATION_URL) =>
          result.kind = "raise"
    /\ (PolicyRan /\ args.is_test /\ Last(requests).url = PRODUCTION_VERIFICATION_URL) =>
          RaisedInvalidReceipt /\ stages = <<"policy">>

C15_Witness ==
    /\ PolicyRan
    /\ args.is_test
    /\ Last(requests).url = PRODUCTION_VERIFICATION_URL
    /\ BundleAllowed(CheckedReceipt, AllowedBundleIds(TRUE))
    /\ ProductsAllowed(CheckedReceipt, AllowedProductIds(TRUE))
    /\ RaisedInvalidReceipt

----------------------------------------------------------------------------
(* The binary receipt decoder.  A payload is what Receipt.load sees: either *)
(* bytes that are no SET OF at all, or a sequence of attributes             *)
(* (type, version, value) whose value wraps one more encoded scalar.        *)

TYPE_ENVIRONMENT == 0
TYPE_BUNDLE_ID == 2
TYPE_APPLICATION_VERSION == 3
TYPE_OPAQUE_VALUE == 4
TYPE_SHA1_HASH == 5
TYPE_RECEIPT_CREATION_DATE == 12
TYPE_IN_APP == 17
TYPE_ORIGINAL_PURCHASE_DATE == 18
TYPE_ORIGINAL_APPLICATION_VERSION == 19
TYPE_EXPIRATION_DATE == 21

TYPE_IN_APP_QUANTITY == 1701
TYPE_IN_APP_PRODUCT_ID == 1702
TYPE_IN_APP_TRANSACTION_ID == 1703
TYPE_IN_APP_PURCHASE_DATE == 1704
TYPE_IN_APP_ORIGINAL_TRANSACTION_ID == 1705
TYPE_IN_APP_ORIGINAL_PURCHASE_DATE == 1706
TYPE_IN_APP_EXPIRES_DATE == 1708
TYPE_IN_APP_WEB_ORDER_LINE_ITEM_ID == 1711
TYPE_IN_APP_CANCELLATION_DATE == 1712
TYPE_IN_APP_IS_IN_INTRO_OFFER_PERIOD == 1719

FieldSpec(name, cls) == [name |-> name, cls |-> cls]

RECEIPT_FIELD_MAP ==
    (TYPE_ENVIRONMENT :> FieldSpec("_environment", "UTF8String"))
    @@ (TYPE_BUNDLE_ID :> FieldSpec("bundle_id", "UTF8String"))
    @@ (TYPE_APPLICATION_VERSION :> FieldSpec("application_version", "UTF8String"))
    @@ (TYPE_OPAQUE_VALUE :> FieldSpec("_opaque_value", "OctetString"))
    @@ (TYPE_SHA1_HASH :> FieldSpec("_sha1_hash", "OctetString"))
    @@ (TYPE_RECEIPT_CREATION_DATE :> FieldSpec("creation_date", "IA5String"))
    @@ (TYPE_IN_APP :> FieldSpec("in_app", "OctetString"))
    @@ (TYPE_ORIGINAL_PURCHASE_DATE :> FieldSpec("original_purchase_date", "IA5String"))
    @@ (TYPE_ORIGINAL_APPLICATION_VERSION :>
            FieldSpec("original_application_version", "UTF8String"))
    @@ (TYPE_EXPIRATION_DATE :> FieldSpec("expiration_date", "IA5String"))

IN_APP_FIELD_MAP ==
    (TYPE_IN_APP_QUANTITY :> FieldSpec("quantity", "Integer"))
    @@ (TYPE_IN_APP_PRODUCT_ID :> FieldSpec("product_id", "UTF8String"))
    @@ (TYPE_IN_APP_TRANSACTION_ID :> FieldSpec("transaction_id", "UTF8String"))
    @@ (TYPE_IN_APP_PURCHASE_DATE :> FieldSpec("purchase_date", "IA5String"))
    @@ (TYPE_IN_APP_ORIGINAL_TRANSACTION_ID :>
            FieldSpec("original_transaction_id", "UTF8String"))
    @@ (TYPE_IN_APP_ORIGINAL_PURCHASE_DATE :>
            FieldSpec("original_purchase_date", "IA5String"))
    @@ (TYPE_IN_APP_EXPIRES_DATE :> FieldSpec("expires_date", "IA5String"))
    @@ (TYPE_IN_APP_WEB_ORDER_LINE_ITEM_ID :>
            FieldSpec("web_order_line_item_id", "Integer"))
    @@ (TYPE_IN_APP_CANCELLATION_DATE :> FieldSpec("cancellation_date", "IA5String"))
    @@ (TYPE_IN_APP_IS_IN_INTRO_OFFER_PERIOD :>
            FieldSpec("is_in_intro_offer_period", "Integer"))

\* one element of the SET OF
ReceiptAttribute(type, value) == [type |-> type, version |-> 1, value |-> value]

\* the encoded scalar inside an attribute's OCTET STRING: the universal tag it
\* carries and the value under it
Der(tag, native) == [tag |-> tag, native |-> native]
Malformed == Der("malformed", "?")

\* the octets of an encoded scalar, as attr["value"].native gives them
Octets(v) == v.tag \o ":" \o v.native

\* cls.load(octets) succeeds when the octets carry the tag of cls
Loads(cls, v) == v.tag = cls

\* ReceiptAttributeType / InAppAttributeType: .native is the mapped name for a
\* type code of the map and the bare integer otherwise
IsMapped(field_map, type) == type \in DOMAIN field_map

RECURSIVE DecodeInApp(_, _, _)

\* Fault variant: the value of an attribute of unknown type is loaded too
RECURSIVE DecodeInApp_UnknownLoaded(_, _, _)
DecodeInApp_UnknownLoaded(attrs, i, in_app) ==
    IF i > Len(attrs) THEN Return(in_app)
    ELSE
        LET attr == attrs[i]
            spec == IN_APP_FIELD_MAP[attr.type]
        IN  IF ~IsMapped(IN_APP_FIELD_MAP, attr.type)
            THEN IF attr.value = Malformed THEN Raise("ValueError", EmptyDict)
                 ELSE DecodeInApp_UnknownLoaded(attrs, i + 1, in_app)
            ELSE IF ~Loads(spec.cls, attr.value)
            THEN Raise("ValueError", EmptyDict)
            ELSE DecodeInApp_UnknownLoaded(attrs, i + 1,
                                           Put(in_app, spec.name, attr.value.native))

\* the attributes of one in-app payload, from the first onwards; the inner
\* load is not guarded
DecodeInApp(attrs, i, in_app) ==
    IF i > Len(attrs) THEN Return(in_app)
    ELSE
        LET attr == attrs[i]
            spec == IN_APP_FIELD_MAP[attr.type]
        IN  IF ~IsMapped(IN_APP_FIELD_MAP, attr.type)
            THEN DecodeInApp(attrs, i + 1, in_app)
            ELSE IF ~Loads(spec.cls, attr.value)
            THEN Raise("ValueError", EmptyDict)
            ELSE DecodeInApp(attrs, i + 1, Put(in_app, spec.name, attr.value.native))

RECURSIVE _decode_iap(_, _, _)
_decode_iap(in_apps, i, decoded) ==
    IF i > Len(in_apps) THEN Return(decoded)
    ELSE IF ~Loads("SetOf", in_apps[i]) THEN Raise("ValueError", EmptyDict)
    ELSE
        LET in_app == DecodeInApp(in_apps[i].native, 1, EmptyDict)
        IN  IF in_app.kind = "raise" THEN in_app
            ELSE _decode_iap(in_apps, i + 1, Append(decoded, in_app.value))

\* the loop over the attributes of the receipt: in_app values are set aside,
\* a mapped scalar is decoded, or kept as its octets when that fails
RECURSIVE DecodeAttributes(_, _, _, _)
DecodeAttributes(attrs, i, decoded, in_apps) ==
    IF i > Len(attrs) THEN [decoded |-> decoded, in_apps |-> in_apps]
    ELSE
        LET attr == attrs[i]
            spec == RECEIPT_FIELD_MAP[attr.type]
        IN  IF ~IsMapped(RECEIPT_FIELD_MAP, attr.type)
            THEN DecodeAttributes(attrs, i + 1, decoded, in_apps)
            ELSE IF spec.name = "in_app"
            THEN DecodeAttributes(attrs, i + 1, decoded, Append(in_apps, attr.value))
            ELSE IF Loads(spec.cls, attr.value)
            THEN DecodeAttributes(attrs, i + 1,
                                  Put(decoded, spec.name, attr.value.native), in_apps)
            ELSE DecodeAttributes(attrs, i + 1,
                                  Put(decoded, spec.name, Octets(attr.value)), in_apps)

\* Fault variant: a receipt without an environment is not a sandbox receipt
IsSandbox_EnvironmentRequired(decoded) ==
    /\ Get(decoded, "original_application_version", None) = "1.0"
    /\ Has(decoded, "_environment")
    /\ Get(decoded, "_environment", None) # "Production"

IsSandbox(decoded) ==
    /\ Get(decoded, "original_application_version", None) = "1.0"
    /\ Get(decoded, "_environment", None) # "Production"

decode_receipt(receipt_data) ==
    IF ~receipt_data.loads THEN Raise("ValueError", EmptyDict)
    ELSE
        LET scalars == DecodeAttributes(receipt_data.attrs, 1, EmptyDict, <<>>)
            decoded_in_apps == _decode_iap(scalars.in_apps, 1, <<>>)
            with_in_app == Put(scalars.decoded, "in_app", decoded_in_apps.value)
        IN  IF decoded_in_apps.kind = "raise" THEN decoded_in_apps
            ELSE Return(Put(with_in_app, "_sandbox", IsSandbox(with_in_app)))

----------------------------------------------------------------------------
(* The signature and chain verifier.  A certificate is abstracted to who it *)
(* names, who it says issued it, the key it holds and the key that signed   *)
(* it; an envelope to whether it loads as a ContentInfo, its certificates,  *)
(* its signature (the signing key and the content signed) and its content.  *)

Certificate(subject, issuer, key, signed_by) ==
    [subject |-> subject, issuer |-> issuer, key |-> key, signed_by |-> signed_by]

AppleRootCA == Certificate("Apple Root CA", "Apple Root CA", "root", "root")

\* settings.TRUSTED_ROOT_FILE: the certificate the file holds
TRUSTED_ROOT_FILE == AppleRootCA

SelfSigned(cert) == cert.subject = cert.issuer /\ cert.key = cert.signed_by

\* the certificates of the store that issued cert
Issuers(store, cert) ==
    {c \in store : c.subject = cert.issuer /\ c.key = cert.signed_by}

\* X509StoreContext(store, cert).verify_certificate(): a chain of issuers
\* inside the store leads from cert to a self-signed certificate of the store
RECURSIVE ChainVerifies(_, _, _)
ChainVerifies(store, cert, depth) ==
    IF SelfSigned(cert) THEN cert \in store
    ELSE /\ depth > 0
         /\ \E c \in Issuers(store, cert) : ChainVerifies(store, c, depth - 1)

verify_certificate(store, cert) == ChainVerifies(store, cert, Cardinality(store))

\* crypto.verify(cert, signature, data, "sha1")
verify(cert, signature, data) == signature.key = cert.key /\ signature.over = data

NoPayload == [loads |-> FALSE, attrs |-> <<>>]
NoEnvelope ==
    [container |-> FALSE, certificates |-> <<>>,
     signature |-> [key |-> "", over |-> NoPayload], content |-> NoPayload]

\* the frame of one call: its arguments, its position, its local variables
Frame(function, raw_data, receipt_data, at) ==
    [function |-> function, raw_data |-> raw_data, pc |-> at,
     trusted_store |-> {TRUSTED_ROOT_FILE}, receipt_data |-> receipt_data,
     steps |-> <<>>, result |-> NoResult,
     args |-> Arguments(<<>>, timedelta(0, 0), FALSE, None),
     attempt |-> 0, url |-> "", payload |-> EmptyDict, responses |-> <<>>]

IdleFrame ==
    [Frame("", NoEnvelope, NoPayload, "idle") EXCEPT !.trusted_store = {}]

Finish(f, step, outcome) ==
    [f EXCEPT !.pc = "done", !.steps = Append(@, step), !.result = outcome]

Advance(f, step, to) == [f EXCEPT !.pc = to, !.steps = Append(@, step)]

\* ContentInfo.load and the extraction of certificates, signer info and content
LoadContainer(f) ==
    IF ~f.raw_data.container
    THEN Finish(f, "container", Raise("InvalidReceipt", "Unable to decode receipt data"))
    ELSE IF Len(f.raw_data.certificates) < 2
    THEN Finish(f, "container", Raise("IndexError", ""))
    ELSE Advance(f, "container", "wwdr")

\* Fault variant: the intermediate is added to the store before it is verified
VerifyWWDR_AddedFirst(f, store) ==
    LET wwdr_cert == f.raw_data.certificates[2]
    IN  IF verify_certificate(store \cup {wwdr_cert}, wwdr_cert)
        THEN [Advance(f, "wwdr", "itunes") EXCEPT
                 !.trusted_store = store \cup {wwdr_cert}]
        ELSE Finish(f, "wwdr", Raise("InvalidReceipt", "Invalid WWDR certificate"))

\* the intermediate is verified against the store and then added to it
VerifyWWDR(f, store) ==
    LET wwdr_cert == f.raw_data.certificates[2]
    IN  IF verify_certificate(store, wwdr_cert)
        THEN [Advance(f, "wwdr", "itunes") EXCEPT
                 !.trusted_store = store \cup {wwdr_cert}]
        ELSE Finish(f, "wwdr", Raise("InvalidReceipt", "Invalid WWDR certificate"))

VerifyITunes(f, store) ==
    LET itunes_cert == f.raw_data.certificates[1]
    IN  IF verify_certificate(store, itunes_cert)
        THEN Advance(f, "itunes", "signature")
        ELSE Finish(f, "itunes", Raise("InvalidReceipt", "Invalid iTunes certificate"))

VerifySignature(f) ==
    LET itunes_cert == f.raw_data.certificates[1]
    IN  IF ~verify(itunes_cert, f.raw_data.signature, f.raw_data.content)
        THEN Finish(f, "signature",
                    Raise("InvalidReceipt", "Signature verification failed"))
        ELSE IF f.function = "parse_receipt"
        THEN [Advance(f, "signature", "decode") EXCEPT
                 !.receipt_data = f.raw_data.content]
        ELSE Finish(f, "signature", Return(f.raw_data.content))

DecodeReceipt(f) == Finish(f, "decode", decode_receipt(f.receipt_data))

\* the call run from f to its end with nothing else running
RECURSIVE RunAlone(_)
RunAlone(f) ==
    IF f.pc = "container" THEN RunAlone(LoadContainer(f))
    ELSE IF f.pc = "wwdr" THEN RunAlone(VerifyWWDR(f, f.trusted_store))
    ELSE IF f.pc = "itunes" THEN RunAlone(VerifyITunes(f, f.trusted_store))
    ELSE IF f.pc = "signature" THEN RunAlone(VerifySignature(f))
    ELSE IF f.pc = "decode" THEN RunAlone(DecodeReceipt(f))
    ELSE f

verify_receipt_sig(raw_data) ==
    RunAlone(Frame("verify_receipt_sig", raw_data, NoPayload, "container")).result

parse_receipt(raw_data) ==
    RunAlone(Frame("parse_receipt", raw_data, NoPayload, "container")).result

----------------------------------------------------------------------------
(* Inputs of the parser: certificates, payloads and envelopes *)

WWDR == Certificate("Apple WWDR CA", "Apple Root CA", "wwdr", "root")
ITunes == Certificate("iTunes Store Receipt Signing", "Apple WWDR CA", "itunes", "wwdr")
\* another intermediate of the same root
DeveloperCA == Certificate("Developer ID CA", "Apple Root CA", "devid", "root")
\* a certificate the root issued directly
RootIssued == Certificate("Software Update", "Apple Root CA", "update", "root")
\* a foreign self-signed authority and a certificate it issued
RogueCA == Certificate("Rogue CA", "Rogue CA", "rogue", "rogue")
RogueLeaf == Certificate("iTunes Store Receipt Signing", "Rogue CA", "rogue-leaf", "rogue")
\* a certificate that names the root as issuer but is signed by a foreign key,
\* and a certificate issued under it
ForgedWWDR == Certificate("Apple WWDR CA", "Apple Root CA", "forged", "rogue")
ForgedLeaf ==
    Certificate("iTunes Store Receipt Signing", "Apple WWDR CA", "forged-leaf", "forged")

LeafCertificates == {ITunes, RogueLeaf, ForgedLeaf, RootIssued}
IntermediateCertificates == {WWDR, DeveloperCA, RogueCA, ForgedWWDR}

Utf8(text) == Der("UTF8String", text)
Ia5(text) == Der("IA5String", text)

\* a type code outside both field maps
UnknownType == TYPE_IN_APP_IS_IN_INTRO_OFFER_PERIOD + 80

ProductA == ReceiptAttribute(TYPE_IN_APP_PRODUCT_ID, Utf8("A"))
ProductB == ReceiptAttribute(TYPE_IN_APP_PRODUCT_ID, Utf8("B"))

InAppPayloads ==
    {<<ProductA>>,
     <<ProductA, ReceiptAttribute(UnknownType, Utf8("x"))>>,
     <<ReceiptAttribute(UnknownType, Malformed), ProductB>>,
     <<ReceiptAttribute(TYPE_IN_APP_PRODUCT_ID, Malformed),
       ReceiptAttribute(TYPE_IN_APP_EXPIRES_DATE, Ia5("2019-07-01T00:00:00Z"))>>,
     <<ReceiptAttribute(TYPE_IN_APP_QUANTITY, Der("Integer", 1)), ProductB>>}

Attributes ==
    {ReceiptAttribute(TYPE_ENVIRONMENT, v) :
        v \in {Utf8("Production"), Utf8("ProductionSandbox"), Malformed}}
    \cup {ReceiptAttribute(TYPE_ORIGINAL_APPLICATION_VERSION, v) :
            v \in {Utf8("1.0"), Utf8("2.3"), Malformed}}
    \cup {ReceiptAttribute(TYPE_BUNDLE_ID, Utf8(PRODUCTION_BUNDLE_ID)),
          ReceiptAttribute(UnknownType, Malformed),
          ReceiptAttribute(TYPE_IN_APP, Malformed)}
    \cup {ReceiptAttribute(TYPE_IN_APP, Der("SetOf", p)) : p \in InAppPayloads}

ReceiptPayload(attrs) == [loads |-> TRUE, attrs |-> attrs]

Payloads == {ReceiptPayload(l) : l \in Lists(Attributes, MaxAttributes)} \cup {NoPayload}

SandboxPayload ==
    ReceiptPayload(<<ReceiptAttribute(TYPE_BUNDLE_ID, Utf8(PRODUCTION_BUNDLE_ID)),
                     ReceiptAttribute(TYPE_ORIGINAL_APPLICATION_VERSION, Utf8("1.0"))>>)
ProductionPayload ==
    ReceiptPayload(<<ReceiptAttribute(TYPE_ENVIRONMENT, Utf8("Production")),
                     ReceiptAttribute(TYPE_IN_APP, Der("SetOf", <<ProductA>>))>>)
BrokenPayload ==
    ReceiptPayload(<<ReceiptAttribute(TYPE_IN_APP, Malformed)>>)

Contents == {SandboxPayload, ProductionPayload, BrokenPayload}

Envelope(certificates, key, over, content) ==
    [container |-> TRUE, certificates |-> certificates,
     signature |-> [key |-> key, over |-> over], content |-> content]

Envelopes ==
    UNION {{Envelope(<<leaf, ca>>, k, over, content) :
                ca \in IntermediateCertificates, k \in {leaf.key, "stranger"},
                over \in Contents, content \in Contents} :
            leaf \in LeafCertificates}
    \cup {Envelope(<<ITunes>>, "itunes", SandboxPayload, SandboxPayload), NoEnvelope}

----------------------------------------------------------------------------
(* The parser's calls, step by step *)

call == <<pc, entry, args, secret, attempt, url, payload, requests, last_response,
          apple_results, stages, now, result>>

\* Fault variant: one trust store for the whole module
TrustedStore_Shared(t) == UNION {threads[u].trusted_store : u \in DOMAIN threads}

\* the trust store a call verifies against is the one it built itself
TrustedStore(t) == threads[t].trusted_store

Start(t, f) ==
    /\ threads' = [threads EXCEPT ![t] = f]
    /\ UNCHANGED call

CallVerifyReceiptSig(t, envelopes) ==
    /\ threads[t].pc = "idle"
    /\ \E raw_data \in envelopes :
          Start(t, Frame("verify_receipt_sig", raw_data, NoPayload, "container"))

CallParseReceipt(t, envelopes) ==
    /\ threads[t].pc = "idle"
    /\ \E raw_data \in envelopes :
          Start(t, Frame("parse_receipt", raw_data, NoPayload, "container"))

CallDecodeReceipt(t) ==
    /\ threads[t].pc = "idle"
    /\ \E receipt_data \in Payloads :
          Start(t, Frame("decode_receipt", NoEnvelope, receipt_data, "decode"))

Load(t) ==
    /\ threads[t].pc = "container"
    /\ Start(t, LoadContainer(threads[t]))

CheckWWDR(t) ==
    /\ threads[t].pc = "wwdr"
    /\ Start(t, VerifyWWDR(threads[t], TrustedStore(t)))

CheckITunes(t) ==
    /\ threads[t].pc = "itunes"
    /\ Start(t, VerifyITunes(threads[t], TrustedStore(t)))

CheckSignature(t) ==
    /\ threads[t].pc = "signature"
    /\ Start(t, VerifySignature(threads[t]))

Decode(t) ==
    /\ threads[t].pc = "decode"
    /\ Start(t, DecodeReceipt(threads[t]))

InitParse == InitCall({""}) /\ threads = <<IdleFrame>>

NextParse ==
    \/ \E t \in DOMAIN threads : CallVerifyReceiptSig(t, Envelopes)
    \/ \E t \in DOMAIN threads : CallParseReceipt(t, Envelopes)
    \/ \E t \in DOMAIN threads : CallDecodeReceipt(t)
    \/ \E t \in DOMAIN threads : Load(t)
    \/ \E t \in DOMAIN threads : CheckWWDR(t)
    \/ \E t \in DOMAIN threads : CheckITunes(t)
    \/ \E t \in DOMAIN threads : CheckSignature(t)
    \/ \E t \in DOMAIN threads : Decode(t)

SpecParse == InitParse /\ [][NextParse]_vars

----------------------------------------------------------------------------
(* Calls running side by side.  Each call has its own frame: the locals of  *)
(* verify_receipt_sig (the trust store among them) and of                   *)
(* validate_receipt_with_apple (url, payload) live in it; the module-level  *)
(* names the calls share are settings that are only read.                   *)

\* validate_receipt_is_active is called: the first invocation of
\* validate_receipt_with_apple POSTs to the production endpoint
RemoteFrame(a, shared_secret) ==
    [Frame("validate_receipt_is_active", NoEnvelope, NoPayload, "wait") EXCEPT
        !.args = a, !.attempt = 1, !.url = PRODUCTION_VERIFICATION_URL,
        !.payload = Payload(a.data, shared_secret)]

\* the pending POST of the frame is answered with r
RemoteStep(f, r, py, utcnow, shared_secret) ==
    LET step == EndpointIteration(r, f.url = PRODUCTION_VERIFICATION_URL, py)
        tail == IsActiveTail(step.value, f.args, utcnow)
        g == [f EXCEPT !.responses = Append(@, [response |-> r, py |-> py])]
    IN  IF step.kind = "continue" /\ f.url # PRODUCTION_VERIFICATION_URL
        THEN Finish(g, "remote", Raise("TypeError", EmptyDict))
        ELSE IF step.kind = "continue"
        THEN [g EXCEPT !.url = SANDBOX_VERIFICATION_URL]
        ELSE IF CatchesRetry(f.function, f.attempt, step)
        THEN [g EXCEPT !.attempt = @ + 1, !.url = PRODUCTION_VERIFICATION_URL,
                       !.payload = Payload(f.args.data, shared_secret)]
        ELSE IF step.kind = "raise"
        THEN Finish(g, "remote", step)
        ELSE Finish(g, "remote", tail.result)

\* the call run from f to its end, alone, against the answers from the i-th on
RECURSIVE RunRemote(_, _, _, _, _)
RunRemote(f, answers, i, utcnow, shared_secret) ==
    IF f.pc # "wait" \/ i > Len(answers) THEN f
    ELSE RunRemote(RemoteStep(f, answers[i].response, answers[i].py, utcnow, shared_secret),
                   answers, i + 1, utcnow, shared_secret)

CallValidateReceiptIsActive(t, a) ==
    /\ threads[t].pc = "idle"
    /\ Start(t, RemoteFrame(a, secret))

ThreadReceive(t, r, py, utcnow) ==
    /\ threads[t].pc = "wait"
    /\ Start(t, RemoteStep(threads[t], r, py, utcnow, secret))

Genuine(content) == Envelope(<<ITunes, WWDR>>, "itunes", content, content)

\* envelopes of concurrent calls: the genuine chain, a leaf of one
\* intermediate sent with another intermediate of the same root, a foreign
\* chain, and bytes that are no envelope
ConcurrentEnvelopes ==
    {Genuine(SandboxPayload),
     Genuine(ProductionPayload),
     Envelope(<<ITunes, DeveloperCA>>, "itunes", ProductionPayload, ProductionPayload),
     Envelope(<<RogueLeaf, RogueCA>>, "rogue-leaf", SandboxPayload, SandboxPayload),
     NoEnvelope}

ConcurrentArguments == {Arguments(d, timedelta(7, 0), FALSE, None) : d \in Datas}

ConcurrentResponses ==
    {Ok([status |-> 0, receipt |-> GoodReceipt]),
     Ok([status |-> 0, receipt |-> MkReceipt(PRODUCTION_BUNDLE_ID, <<LapsedEntry>>)]),
     Ok([status |-> APPSTORE_STATUS_TEST_ENVIRONMENT_RECEIPT]),
     Ok([status |-> APPSTORE_STATUS_RECEIPT_SERVER_DOWN])}

InitConcurrent == InitCall({""}) /\ threads = <<IdleFrame, IdleFrame>>

NextConcurrent ==
    \/ \E t \in DOMAIN threads : CallVerifyReceiptSig(t, ConcurrentEnvelopes)
    \/ \E t \in DOMAIN threads : CallParseReceipt(t, ConcurrentEnvelopes)
    \/ \E t \in DOMAIN threads, a \in ConcurrentArguments : CallValidateReceiptIsActive(t, a)
    \/ \E t \in DOMAIN threads, r \in ConcurrentResponses,
          py \in PythonVersions, u \in Nows :
          ThreadReceive(t, r, py, u)
    \/ \E t \in DOMAIN threads : Load(t)
    \/ \E t \in DOMAIN threads : CheckWWDR(t)
    \/ \E t \in DOMAIN threads : CheckITunes(t)
    \/ \E t \in DOMAIN threads : CheckSignature(t)
    \/ \E t \in DOMAIN threads : Decode(t)

SpecConcurrent == InitConcurrent /\ [][NextConcurrent]_vars

----------------------------------------------------------------------------
(* Properties of the verifier and the decoder *)

Finished(t, function) == threads[t].pc = "done" /\ threads[t].function = function

\* the call of thread t went through the verifier
Verifying(t) == threads[t].function \in {"verify_receipt_sig", "parse_receipt"}

TwoCertificates(raw_data) == raw_data.container /\ Len(raw_data.certificates) >= 2

IntermediateChainsToRoot(raw_data) ==
    verify_certificate({TRUSTED_ROOT_FILE}, raw_data.certificates[2])

LeafChainsToIntermediate(raw_data) ==
    raw_data.certificates[2] \in Issuers({raw_data.certificates[2]}, raw_data.certificates[1])

SignatureVerifies(raw_data) ==
    verify(raw_data.certificates[1], raw_data.signature, raw_data.content)

AllThreeChecks(raw_data) ==
    /\ TwoCertificates(raw_data)
    /\ IntermediateChainsToRoot(raw_data)
    /\ LeafChainsToIntermediate(raw_data)
    /\ SignatureVerifies(raw_data)

DecoderRan(t) == threads[t].pc = "decode" \/ "decode" \in Range(threads[t].steps)

\* C16: verify_receipt_sig returns the encapsulated content, unmodified, only
\* when the intermediate chains to the configured root, the leaf chains to the
\* intermediate and the signature over the content verifies with the leaf; when
\* one of the three fails it raises InvalidReceipt and parse_receipt never
\* runs the decoder.
C16_NoPartialTrust ==
    \A t \in DOMAIN threads :
        Verifying(t) =>
            /\ (Finished(t, "verify_receipt_sig") /\ threads[t].result.kind = "return") =>
                  /\ AllThreeChecks(threads[t].raw_data)
                  /\ threads[t].result.value = threads[t].raw_data.content
            /\ DecoderRan(t) => AllThreeChecks(threads[t].raw_data)
            /\ (threads[t].pc = "done" /\ TwoCertificates(threads[t].raw_data)
                    /\ ~AllThreeChecks(threads[t].raw_data)) =>
                  /\ threads[t].result.kind = "raise"
                  /\ threads[t].result.exc = "InvalidReceipt"

IsKnown(field_map, attr) == attr.type \in DOMAIN field_map

\* the in-app payload without the attributes whose type is in no field map
StripInApp(value) ==
    IF value.tag # "SetOf" THEN value
    ELSE Der("SetOf", SelectSeq(value.native, LAMBDA a : IsKnown(IN_APP_FIELD_MAP, a)))

StripAttribute(attr) ==
    IF attr.type = TYPE_IN_APP THEN ReceiptAttribute(attr.type, StripInApp(attr.value))
    ELSE attr

\* the payload without the attributes, at the top level and inside in-app
\* entries, whose type is in no field map
StripUnknown(receipt_data) ==
    LET known == SelectSeq(receipt_data.attrs, LAMBDA a : IsKnown(RECEIPT_FIELD_MAP, a))
    IN  [receipt_data EXCEPT !.attrs = [i \in 1..Len(known) |-> StripAttribute(known[i])]]

Decoded(t) == threads[t].pc = "done" /\ "decode" \in Range(threads[t].steps)

\* C17: decode_receipt never fails because of an attribute whose type is in no
\* field map: such attributes, at the top level and inside in-app entries, are
\* dropped, and the call ends as it does for the payload without them (the
\* same record).
C17_UnknownTagsDropped ==
    \A t \in DOMAIN threads :
        Decoded(t) =>
            threads[t].result = decode_receipt(StripUnknown(threads[t].receipt_data))

C17_Witness ==
    \E t \in DOMAIN threads :
        /\ Decoded(t)
        /\ threads[t].result.kind = "return"
        /\ \E i \in 1..Len(threads[t].receipt_data.attrs) :
              ~IsKnown(RECEIPT_FIELD_MAP, threads[t].receipt_data.attrs[i])
        /\ \E i \in 1..Len(threads[t].receipt_data.attrs) :
              LET a == threads[t].receipt_data.attrs[i]
              IN  /\ a.type = TYPE_IN_APP
                  /\ a.value.tag = "SetOf"
                  /\ \E j \in 1..Len(a.value.native) :
                        /\ ~IsKnown(IN_APP_FIELD_MAP, a.value.native[j])
                        /\ a.value.native[j].value = Malformed
        /\ Len(threads[t].result.value["in_app"]) = 1
        /\ threads[t].result.value["in_app"][1] = ("product_id" :> "B")

\* attrs[i] is the last attribute of its type
LastOfType(attrs, i) == \A j \in (i + 1)..Len(attrs) : attrs[j].type # attrs[i].type

\* every well-formed attribute of the map (the last of its type) is in the
\* record under its name, decoded
FieldsDecoded(field_map, attrs, record) ==
    \A i \in 1..Len(attrs) :
        (/\ IsKnown(field_map, attrs[i])
         /\ field_map[attrs[i].type].name # "in_app"
         /\ Loads(field_map[attrs[i].type].cls, attrs[i].value)
         /\ LastOfType(attrs, i)) =>
            /\ Has(record, field_map[attrs[i].type].name)
            /\ record[field_map[attrs[i].type].name] = attrs[i].value.native

InAppValues(attrs) ==
    LET in_apps == SelectSeq(attrs, LAMBDA a : a.type = TYPE_IN_APP)
    IN  [i \in 1..Len(in_apps) |-> in_apps[i].value]

\* C18: a per-field decode failure is non-fatal for that field only: when the
\* inner value of a known attribute is malformed, at the top level or inside
\* an in-app entry, decode_receipt still returns a record in which every other
\* field is decoded.
C18_FieldFailureLocal ==
    \A t \in DOMAIN threads :
        (Decoded(t) /\ threads[t].receipt_data.loads) =>
            LET attrs == threads[t].receipt_data.attrs
                in_apps == InAppValues(attrs)
            IN  /\ threads[t].result.kind = "return"
                /\ FieldsDecoded(RECEIPT_FIELD_MAP, attrs, threads[t].result.value)
                /\ \A k \in 1..Len(in_apps) :
                      in_apps[k].tag = "SetOf" =>
                          FieldsDecoded(IN_APP_FIELD_MAP, in_apps[k].native,
                                        threads[t].result.value["in_app"][k])

IsList(q) == DOMAIN q = 1..Len(q)

\* C19: every record decode_receipt returns has _sandbox equal to
\* (original_application_version = "1.0") and (_environment # "Production"),
\* taken from the record once all attributes are processed (no environment
\* counts as not Production, no original_application_version gives false),
\* and has an in_app key holding a list, empty when the payload has no
\* attribute of type 17.
C19_SandboxDerived ==
    \A t \in DOMAIN threads :
        (Decoded(t) /\ threads[t].result.kind = "return") =>
            LET record == threads[t].result.value
                attrs == threads[t].receipt_data.attrs
            IN  /\ Has(record, "_sandbox")
                /\ record["_sandbox"] =
                      (/\ Has(record, "original_application_version")
                       /\ record["original_application_version"] = "1.0"
                       /\ ~(/\ Has(record, "_environment")
                            /\ record["_environment"] = "Production"))
                /\ FieldsDecoded(RECEIPT_FIELD_MAP, attrs, record)
                /\ Has(record, "in_app")
                /\ IsList(record["in_app"])
                /\ Len(record["in_app"]) = Len(InAppValues(attrs))

C19_Witness ==
    \E t \in DOMAIN threads :
        /\ Decoded(t)
        /\ threads[t].result.kind = "return"
        /\ Len(threads[t].receipt_data.attrs) = MaxAttributes
        /\ InAppValues(threads[t].receipt_data.attrs) = <<>>
        /\ threads[t].result.value["in_app"] = <<>>
        /\ ~Has(threads[t].result.value, "_environment")
        /\ threads[t].receipt_data.attrs[1] =
              ReceiptAttribute(TYPE_ORIGINAL_APPLICATION_VERSION, Utf8("2.3"))
        /\ threads[t].receipt_data.attrs[2] =
              ReceiptAttribute(TYPE_ORIGINAL_APPLICATION_VERSION, Utf8("1.0"))
        /\ threads[t].result.value["_sandbox"]

\* C20: calls share no mutable state: when verify_receipt_sig, parse_receipt
\* and validate_receipt_is_active calls run side by side, each ends, under
\* every interleaving, as it ends when run alone on the same input (and the
\* same answers of the endpoints); the trust store of a call holds the root
\* and at most the intermediate of that call's own envelope.
C20_NoSharedState ==
    \A t \in DOMAIN threads :
        /\ (Verifying(t) /\ threads[t].pc = "done") =>
              threads[t].result =
                  RunAlone(Frame(threads[t].function, threads[t].raw_data,
                                 NoPayload, "container")).result
        /\ (threads[t].function = "validate_receipt_is_active"
                /\ threads[t].pc = "done") =>
              threads[t].result =
                  RunRemote(RemoteFrame(threads[t].args, secret), threads[t].responses,
                            1, utcfromtimestamp(NowMs), secret).result
        /\ \A c \in threads[t].trusted_store :
              \/ c = TRUSTED_ROOT_FILE
              \/ /\ Verifying(t)
                 /\ TwoCertificates(threads[t].raw_data)
                 /\ c = threads[t].raw_data.certificates[2]

C20_Witness ==
    /\ threads[1].function = "verify_receipt_sig"
    /\ threads[1].pc = "signature"
    /\ WWDR \in threads[1].trusted_store
    /\ Finished(2, "parse_receipt")
    /\ threads[2].raw_data.certificates = <<ITunes, DeveloperCA>>
    /\ threads[2].trusted_store = {TRUSTED_ROOT_FILE, DeveloperCA}
    /\ threads[2].result = Raise("InvalidReceipt", "Invalid iTunes certificate")

\* the rearrangements of 1..n
Rearrangements(n) == {p \in [1..n -> 1..n] : \A i, j \in 1..n : p[i] = p[j] => i = j}

\* how the call ended: "return" or the class of the exception
Ending == IF result.kind = "raise" THEN result.exc ELSE "return"

\* C21: the outcome of the activity evaluation does not depend on the order of
\* the purchase entries: for every permutation of the evaluated list
\* (cancelled, filtered-out and expired entries and entries lacking both date
\* fields included) the evaluation ends the same way.
C21_OrderIrrelevant ==
    ActivityRan =>
        \A p \in Rearrangements(Len(Evaluated)) :
            ActivityLoop([i \in 1..Len(Evaluated) |-> Evaluated[p[i]]], 1,
                         args.timedelta, grace_period(args.is_test),
                         args.product_id, now) = Ending

\* the list C22 names: latest_receipt_info whenever the key is present,
\* receipt.in_app only when it is absent
SupersedingList(content) ==
    IF Has(content, "latest_receipt_info") THEN content["latest_receipt_info"]
    ELSE content["receipt"]["in_app"]

\* C22: the entries evaluated for activity are those of latest_receipt_info
\* whenever that key is present (even when it is empty and receipt.in_app holds
\* an active entry) and those of receipt.in_app only when it is absent; the two
\* lists are never combined.
C22_LatestInfoSupersedes ==
    ActivityRan =>
        /\ Evaluated = SupersedingList(last_response.content)
        /\ Ending = ActivityLoop(SupersedingList(last_response.content), 1,
                                 args.timedelta, grace_period(args.is_test),
                                 args.product_id, now)

C22_Witness ==
    /\ ActivityRan
    /\ Has(last_response.content, "latest_receipt_info")
    /\ last_response.content["latest_receipt_info"] = <<>>
    /\ last_response.content["receipt"]["in_app"] = <<ActiveEntry>>
    /\ result.exc = "NoActiveReceiptException"

\* the policy check of the selected mode accepts the receipt
PolicyAccepts(receipt, debug) ==
    /\ debug => Get(receipt, "_sandbox", FALSE)
    /\ BundleAllowed(receipt, AllowedBundleIds(debug))
    /\ ProductsAllowed(receipt, AllowedProductIds(debug))

RemoteSucceeded == apple_results # <<>> /\ Last(apple_results).kind = "return"

\* C23: validate_receipt_is_active runs remote validation, then the local
\* policy check on the returned receipt, then the activity evaluation: a
\* bundle-id or product-id violation raises InvalidReceipt even when an entry
\* is active, and neither a normal return nor NoActiveReceiptException happens
\* unless remote validation and the policy check both succeeded.
C23_StageOrder ==
    (pc = "done" /\ entry = "validate_receipt_is_active") =>
        /\ stages \in {<<>>, <<"policy">>, <<"policy", "activity">>}
        /\ stages # <<>> <=> RemoteSucceeded
        /\ stages = <<"policy">> <=>
              (RemoteSucceeded /\ ~PolicyAccepts(CheckedReceipt, args.is_test))
        /\ stages = <<"policy">> => RaisedInvalidReceipt
        /\ (result.kind = "return" \/ result.exc = "NoActiveReceiptException") =>
              /\ RemoteSucceeded
              /\ PolicyAccepts(CheckedReceipt, args.is_test)
              /\ stages = <<"policy", "activity">>

C23_Witness ==
    /\ PolicyRan
    /\ ~args.is_test
    /\ Has(CheckedReceipt, "bundle_id") /\ Has(CheckedReceipt, "in_app")
    /\ CheckedReceipt["bundle_id"] = PRODUCTION_BUNDLE_ID
    /\ CheckedReceipt["in_app"] = <<ActiveEntry, MkEntry("X", FALSE, <<NowMs - 1000, Absent>>)>>
    /\ RaisedInvalidReceipt
    /\ stages = <<"policy">>


VerifierSteps == <<"container", "wwdr", "itunes", "signature", "decode">>

IsPrefix(s, q) == Len(s) <= Len(q) /\ \A i \in 1..Len(s) : s[i] = q[i]

\* the leaf verifies against the root and the intermediate of the envelope
LeafVerifiesInStore(raw_data) ==
    verify_certificate({TRUSTED_ROOT_FILE, raw_data.certificates[2]},
                       raw_data.certificates[1])

\* the message of the earliest check of the envelope that fails, "" when none
EarliestFailure(raw_data) ==
    IF ~IntermediateChainsToRoot(raw_data) THEN "Invalid WWDR certificate"
    ELSE IF ~LeafVerifiesInStore(raw_data) THEN "Invalid iTunes certificate"
    ELSE IF ~SignatureVerifies(raw_data) THEN "Signature verification failed"
    ELSE ""

RemoteReturned == apple_results # <<>> /\ Last(apple_results).kind = "return"

\* C25: on every successful return of validate_receipt_with_apple the
\* receipt's _sandbox is true exactly when the status-0 answer came from the
\* sandbox endpoint and false exactly when it came from the production
\* endpoint, whatever _sandbox the answer itself carried.
C25_SandboxFromEndpoint ==
    RemoteReturned =>
        /\ pc = "done"
        /\ StatusOf(last_response) = 0
        /\ Last(requests).url \in {PRODUCTION_VERIFICATION_URL, SANDBOX_VERIFICATION_URL}
        /\ Last(apple_results).value["receipt"]["_sandbox"]
              = (Last(requests).url = SANDBOX_VERIFICATION_URL)
        /\ entry = "validate_receipt_with_apple" => result = Last(apple_results)

C25_Witness ==
    /\ RemoteReturned
    /\ entry = "validate_receipt_with_apple"
    /\ Get(last_response.content["receipt"], "_sandbox", FALSE)
    /\ Last(requests).url = PRODUCTION_VERIFICATION_URL
    /\ result.kind = "return"
    /\ ~result.value["receipt"]["_sandbox"]


\* the keys validate_receipt_with_apple itself writes into the receipt
OwnKeys == {"_sandbox", "latest_receipt_encoded"}

\* value is the parsed content, up to what the function wrote into its receipt
SameContent(value, content) ==
    /\ DOMAIN value = DOMAIN content
    /\ \A k \in DOMAIN content \ {"receipt"} : value[k] = content[k]
    /\ Has(content, "receipt") =>
          /\ DOMAIN value["receipt"] \ OwnKeys = DOMAIN content["receipt"] \ OwnKeys
          /\ \A k \in DOMAIN content["receipt"] \ OwnKeys :
                value["receipt"][k] = content["receipt"][k]

\* a ReceiptValidationException has just left validate_receipt_with_apple or
\* validate_receipt_is_active: the public call ended with it, or the first
\* invocation raised the retry that validate_receipt_is_active caught
ValidationErrorsLeft ==
    {e \in (IF pc = "done" THEN {result} ELSE {})
           \cup (IF /\ pc = "wait" /\ attempt = 2 /\ Len(requests) = Len(apple_results) + 1
                    /\ apple_results # <<>>
                 THEN {Last(apple_results)} ELSE {}) :
        e.kind = "raise" /\ IsInstance(e.exc, "ReceiptValidationException")}

Without(d, k) == [j \in DOMAIN d \ {k} |-> d[j]]

\* the receipt with every setting of its _sandbox key: absent, true, false
SandboxVariants(receipt) ==
    {Without(receipt, "_sandbox")} \cup {Put(receipt, "_sandbox", b) : b \in BOOLEAN}

EndingOf(outcome) == IF outcome.kind = "raise" THEN outcome.exc ELSE "return"

\* how validate_receipt_is_active ends when the endpoint of the given kind
\* gives the answer r
EndingWhenAnsweredBy(r, is_production_url, py) ==
    LET step == EndpointIteration(r, is_production_url, py)
    IN  IF step.kind = "return"
        THEN EndingOf(IsActiveTail(step.value, args, now).result)
        ELSE EndingOf(step)

\* C29: validate_production_receipt reaches the same verdict whatever the
\* _sandbox key of the receipt, and validate_receipt_is_active with
\* is_test=False ends the same way (returns, or raises the same exception)
\* whether an identical receipt was answered by the sandbox endpoint after a
\* 21007 or by the production endpoint.
C29_SandboxNotConsulted ==
    /\ AppliedAlone("validate_production_receipt") =>
          \A v \in SandboxVariants(args.decoded_receipt) :
              /\ validate_production_receipt(v) =
                    validate_production_receipt(args.decoded_receipt)
              /\ validate_production_receipt_message(v) =
                    validate_production_receipt_message(args.decoded_receipt)
              /\ RaisedInvalidReceipt <=> validate_production_receipt(v) # "True"
    /\ (PolicyRan /\ ~args.is_test) =>
          \A is_production_url \in BOOLEAN, py \in PythonVersions :
              EndingWhenAnsweredBy(last_response, is_production_url, py) = Ending

C29_Witness ==
    /\ PolicyRan
    /\ ~args.is_test
    /\ Len(requests) = 2
    /\ Last(requests).url = SANDBOX_VERIFICATION_URL
    /\ Last(apple_results).value["receipt"]["_sandbox"]
    /\ result.kind = "return"


\* the entry that made the call return: the first active one in loop order
QualifyingEntry ==
    Evaluated[CHOOSE i \in 1..Len(Evaluated) :
                  ActiveEntryAt(i) /\ \A j \in 1..(i - 1) : ~ActiveEntryAt(j)]

\* C30: whenever validate_receipt_is_active returns normally, the entry that
\* qualified has a product_id in the allowed set of the selected mode, whether
\* it came from receipt.in_app or from latest_receipt_info.
C30_QualifyingEntryAllowed ==
    (ActivityRan /\ result.kind = "return") =>
        /\ Has(QualifyingEntry, "product_id")
        /\ QualifyingEntry["product_id"] \in AllowedProductIds(args.is_test)


----------------------------------------------------------------------------
(* iap/forms.py: the forms that validate Apple's status update             *)
(* notifications.  A value of the submitted data is tagged with its Python  *)
(* type; a dict is a function from keys to values.                          *)

Str(text) == [str |-> text]
Num(i) == [int |-> i]
Bool(b) == [bool |-> b]
List(items) == [list |-> items]
Dict(fields) == [dict |-> fields]
\* a str holding the JSON document of value
JsonText(value) == [json |-> value]
\* a datetime and a bytes object
Datetime(dt) == [datetime |-> dt]
Bytes(encoded) == [b64decoded |-> encoded]
PyNone == [none |-> TRUE]

IsStr(v) == "str" \in DOMAIN v \/ "json" \in DOMAIN v
IsNum(v) == "int" \in DOMAIN v
IsBool(v) == "bool" \in DOMAIN v
IsListValue(v) == "list" \in DOMAIN v
IsDict(v) == "dict" \in DOMAIN v

\* `not value`
Falsy(v) ==
    \/ v = PyNone \/ v = Str("") \/ v = Num(0) \/ v = Bool(FALSE)
    \/ v = List(<<>>) \/ v = Dict(EmptyDict)

\* django.core.validators.EMPTY_VALUES: None, "", [], (), {}
IsEmptyValue(v) == v = PyNone \/ v = Str("") \/ v = List(<<>>) \/ v = Dict(EmptyDict)

\* the decimal texts of the inputs and the integers they denote
Numerals ==
    ("0" :> 0) @@ ("1" :> 1) @@ ("2" :> 2) @@ ("000000000" :> 0)
    @@ ("000000000000000" :> 0) @@ ("21004" :> 21004)
    @@ ("1593216" :> 1593216) @@ ("1595808" :> 1595808)

\* what a cleaning step comes to: a cleaned value, a ValidationError, or
\* another exception, which no form catches
Cleaned(v) == [kind |-> "cleaned", exc |-> "", value |-> v]
Invalid == [kind |-> "invalid", exc |-> "ValidationError", value |-> PyNone]
Raised(exc) == [kind |-> "raise", exc |-> exc, value |-> PyNone]

\* int(value)
ToInt(v) ==
    IF IsNum(v) THEN Cleaned(v)
    ELSE IF IsBool(v) THEN Cleaned(Num(IF v.bool THEN 1 ELSE 0))
    ELSE IF "str" \in DOMAIN v /\ v.str \in DOMAIN Numerals THEN Cleaned(Num(Numerals[v.str]))
    ELSE IF IsStr(v) THEN Raised("ValueError")
    ELSE Raised("TypeError")

\* str(value) of a value a text field is given
ToText(v) ==
    IF "str" \in DOMAIN v THEN v.str
    ELSE IF IsNum(v) THEN ToString(v.int)
    ELSE IF IsBool(v) THEN (IF v.bool THEN "True" ELSE "False")
    ELSE "<repr>"

\* a declared field: its class, required flag, choices and max_length
FormField(name, kind, required) ==
    [name |-> name, kind |-> kind, required |-> required, choices |-> {}, max_length |-> 0]
ChoiceField(name, choices, required) ==
    [FormField(name, "ChoiceField", required) EXCEPT !.choices = choices]

\* IAPNullBooleanSelect.value_from_datadict
IAPNullBooleanSelect(value) ==
    IF IsListValue(value) \/ IsDict(value) THEN Raised("TypeError")
    ELSE IF value \in {Str("1"), Str("2"), Bool(TRUE), Str("True"), Str("true"), Num(1)}
    THEN Cleaned(Bool(TRUE))
    ELSE IF value \in {Str("0"), Str("3"), Bool(FALSE), Str("False"), Str("false"), Num(0)}
    THEN Cleaned(Bool(FALSE))
    ELSE Cleaned(PyNone)

\* widget.value_from_datadict(self.data, ...): data.get(name) for every
\* widget but the null-boolean select
value_from_datadict(field, data) ==
    IF field.kind = "NullBooleanField"
    THEN IAPNullBooleanSelect(Get(data, field.name, PyNone))
    ELSE Cleaned(Get(data, field.name, PyNone))

\* field.clean(value): to_python, then validate
FieldClean(field, value) ==
    IF field.kind = "NullBooleanField" THEN Cleaned(value)
    ELSE IF IsEmptyValue(value) THEN
        IF field.required THEN Invalid
        ELSE IF field.kind = "IntegerField" THEN Cleaned(PyNone)
        ELSE IF field.kind = "Field" THEN Cleaned(value)
        ELSE Cleaned(Str(""))
    ELSE IF field.kind = "IntegerField" THEN
        IF ToInt(Str(ToText(value))).kind = "cleaned"
        THEN ToInt(Str(ToText(value))) ELSE Invalid
    ELSE IF field.kind = "ChoiceField" THEN
        IF ToText(value) \in field.choices THEN Cleaned(Str(ToText(value))) ELSE Invalid
    ELSE IF field.kind = "CharField" THEN
        IF field.max_length > 0 /\ Len(ToText(value)) > field.max_length
        THEN Invalid ELSE Cleaned(Str(ToText(value)))
    ELSE Cleaned(value)

EXPIRATION_INTENT_CHOICES == {"1", "2", "3", "4", "5"}

AppleLatestReceiptInfoForm ==
    <<FormField("app_item_id", "IntegerField", TRUE),
      FormField("item_id", "IntegerField", TRUE),
      FormField("product_id", "CharField", TRUE),
      FormField("original_purchase_date", "Field", TRUE),
      FormField("purchase_date", "Field", TRUE),
      FormField("expires_date", "Field", FALSE),
      FormField("original_transaction_id", "CharField", TRUE),
      FormField("transaction_id", "CharField", TRUE),
      FormField("is_in_intro_offer_period", "NullBooleanField", FALSE),
      FormField("is_trial_period", "NullBooleanField", FALSE),
      FormField("quantity", "IntegerField", TRUE),
      FormField("web_order_line_item_id", "CharField", FALSE)>>

AppleUnifiedLatestReceiptInfoForm ==
    <<FormField("cancellation_date", "Field", FALSE),
      ChoiceField("cancellation_reason", {"0", "1"}, FALSE),
      FormField("expires_date", "Field", FALSE),
      FormField("is_in_intro_offer_period", "NullBooleanField", FALSE),
      FormField("is_trial_period", "NullBooleanField", FALSE),
      FormField("is_upgraded", "NullBooleanField", FALSE),
      FormField("original_purchase_date", "Field", TRUE),
      FormField("original_transaction_id", "CharField", TRUE),
      FormField("product_id", "CharField", TRUE),
      FormField("promotional_offer_id", "CharField", FALSE),
      FormField("purchase_date", "Field", TRUE),
      FormField("quantity", "IntegerField", TRUE),
      FormField("subscription_group_identifier", "CharField", FALSE),
      FormField("transaction_id", "CharField", TRUE),
      FormField("web_order_line_item_id", "CharField", FALSE)>>

AppleUnifiedPendingRenewalInfoForm ==
    <<FormField("auto_renew_product_id", "CharField", FALSE),
      FormField("product_id", "CharField", TRUE),
      FormField("auto_renew_status", "NullBooleanField", FALSE),
      ChoiceField("expiration_intent", EXPIRATION_INTENT_CHOICES, FALSE),
      FormField("grace_period_expires_date", "Field", FALSE),
      FormField("is_in_billing_retry_period", "NullBooleanField", FALSE),
      FormField("original_transaction_id", "CharField", TRUE),
      ChoiceField("price_consent_status", {"0", "1"}, FALSE)>>

AppleUnifiedReceiptForm ==
    <<ChoiceField("environment", {"Sandbox", "Production"}, TRUE),
      FormField("latest_receipt", "CharField", FALSE),
      FormField("latest_receipt_info", "Field", FALSE),
      FormField("pending_renewal_info", "Field", FALSE),
      FormField("status", "IntegerField", FALSE)>>

NOTIFICATION_TYPES ==
    {"INITIAL_BUY", "CANCEL", "INTERACTIVE_RENEWAL", "DID_CHANGE_RENEWAL_PREF",
     "DID_CHANGE_RENEWAL_STATUS", "DID_FAIL_TO_RENEW", "DID_RECOVER", "REFUND", "RENEWAL"}

AppleStatusUpdateForm ==
    <<ChoiceField("environment", {"Sandbox", "PROD"}, TRUE),
      ChoiceField("notification_type", NOTIFICATION_TYPES, TRUE),
      FormField("password", "CharField", TRUE),
      FormField("bid", "CharField", TRUE),
      FormField("bvrs", "CharField", TRUE),
      [FormField("auto_renew_adam_id", "CharField", FALSE) EXCEPT !.max_length = 64],
      FormField("auto_renew_product_id", "CharField", FALSE),
      FormField("auto_renew_status", "NullBooleanField", FALSE),
      FormField("auto_renew_status_change_date", "Field", FALSE),
      ChoiceField("expiration_intent", EXPIRATION_INTENT_CHOICES, FALSE),
      FormField("latest_expired_receipt", "CharField", FALSE),
      FormField("latest_expired_receipt_info", "Field", FALSE),
      FormField("latest_receipt", "CharField", FALSE),
      FormField("latest_receipt_info", "Field", FALSE),
      FormField("unified_receipt", "Field", FALSE)>>

\* the declared fields of a form class, in declaration order
Fields(form_cls) ==
    IF form_cls = "AppleLatestReceiptInfoForm" THEN AppleLatestReceiptInfoForm
    ELSE IF form_cls = "AppleUnifiedLatestReceiptInfoForm" THEN AppleUnifiedLatestReceiptInfoForm
    ELSE IF form_cls = "AppleUnifiedPendingRenewalInfoForm" THEN AppleUnifiedPendingRenewalInfoForm
    ELSE IF form_cls = "AppleUnifiedReceiptForm" THEN AppleUnifiedReceiptForm
    ELSE AppleStatusUpdateForm

\* _clean_date: the date in ms under name_ms or name, as a datetime
_clean_date(data, name, required) ==
    LET key == IF Has(data, name \o "_ms") THEN name \o "_ms" ELSE name
    IN  IF Has(data, key) THEN
            IF ToInt(data[key]).kind = "cleaned"
            THEN Cleaned(Datetime(utcfromtimestamp(ToInt(data[key]).value.int)))
            ELSE ToInt(data[key])
        ELSE IF required THEN Invalid
        ELSE Cleaned(PyNone)

\* _clean_base64_receipt: base64.b64decode raises TypeError under Python 2
\* (caught) and binascii.Error under Python 3 (not caught)
_clean_base64_receipt(value, py) ==
    IF Falsy(value) THEN Cleaned(PyNone)
    ELSE IF b64valid(ToText(value)) THEN Cleaned(Bytes(ToText(value)))
    ELSE IF py = 2 THEN Invalid
    ELSE Raised("binascii.Error")

\* _parse_json: a str is decoded, anything else is taken as it is.  Of the
\* texts submitted only those written JsonText(..) are JSON documents.
_parse_json(value) ==
    IF "json" \in DOMAIN value THEN Cleaned(value.json)
    ELSE IF "str" \in DOMAIN value THEN Invalid
    ELSE Cleaned(value)

RECURSIVE CleanFields(_, _, _, _, _, _)
RECURSIVE _clean_form_data(_, _, _)
RECURSIVE CleanItems(_, _, _, _, _)
RECURSIVE _clean_list_of_form_data(_, _, _)
RECURSIVE CleanHook(_, _, _, _, _)

\* form = form_cls(data); form.is_valid(): the outcome with cleaned_data and
\* the names of the fields in error
FullClean(form_cls, data, py) ==
    CleanFields(form_cls, data, py, 1, EmptyDict, {})

_clean_form_data(form_cls, value, py) ==
    IF Falsy(value) THEN Cleaned(PyNone)
    ELSE IF _parse_json(value).kind # "cleaned" THEN _parse_json(value)
    ELSE
        LET loaded == _parse_json(value).value
        IN  IF IsListValue(loaded) THEN Invalid
            ELSE IF ~IsDict(loaded) THEN Raised("AttributeError")
            ELSE
                LET form == FullClean(form_cls, loaded.dict, py)
                IN  IF form.raised # "" THEN Raised(form.raised)
                    ELSE IF ~form.is_valid THEN Invalid
                    ELSE Cleaned(Dict(form.cleaned_data))

\* the list comprehension of _clean_list_of_form_data, item by item
CleanItems(form_cls, items, i, done, py) ==
    IF i > Len(items) THEN Cleaned(List(done))
    ELSE
        LET item == _clean_form_data(form_cls, items[i], py)
        IN  IF item.kind # "cleaned" THEN item
            ELSE CleanItems(form_cls, items, i + 1, Append(done, item.value), py)

_clean_list_of_form_data(form_cls, value, py) ==
    IF Falsy(value) THEN Cleaned(PyNone)
    ELSE IF _parse_json(value).kind # "cleaned" THEN _parse_json(value)
    ELSE
        LET loaded == _parse_json(value).value
        IN  IF ~IsListValue(loaded) THEN Invalid
            ELSE CleanItems(form_cls, loaded.list, 1, <<>>, py)

\* the clean_<name> method of the form class, when it has one
CleanHook(form_cls, name, data, cleaned_data, py) ==
    LET get(k) == Get(cleaned_data, k, PyNone)
    IN  IF form_cls = "AppleUnifiedReceiptForm" /\ name = "status" THEN
            LET value == IF cleaned_data["status"] = PyNone THEN Num(0)
                         ELSE cleaned_data["status"]
            IN  IF value # Num(0) THEN Invalid ELSE Cleaned(value)
        ELSE IF form_cls = "AppleUnifiedReceiptForm" /\ name = "latest_receipt_info" THEN
            _clean_list_of_form_data("AppleUnifiedLatestReceiptInfoForm",
                                     get("latest_receipt_info"), py)
        ELSE IF form_cls = "AppleUnifiedReceiptForm" /\ name = "pending_renewal_info" THEN
            _clean_list_of_form_data("AppleUnifiedPendingRenewalInfoForm",
                                     get("pending_renewal_info"), py)
        ELSE IF form_cls = "AppleStatusUpdateForm" /\ name = "latest_receipt_info" THEN
            _clean_form_data("AppleLatestReceiptInfoForm", get("latest_receipt_info"), py)
        ELSE IF form_cls = "AppleStatusUpdateForm" /\ name = "latest_expired_receipt_info" THEN
            _clean_form_data("AppleLatestReceiptInfoForm", get("latest_receipt_info"), py)
        ELSE IF form_cls = "AppleStatusUpdateForm" /\ name = "unified_receipt" THEN
            _clean_form_data("AppleUnifiedReceiptForm", get("unified_receipt"), py)
        ELSE IF name \in {"latest_receipt", "latest_expired_receipt"} THEN
            _clean_base64_receipt(get(name), py)
        ELSE IF name \in {"original_purchase_date", "purchase_date"} THEN
            _clean_date(data, name, TRUE)
        ELSE IF name \in {"expires_date", "cancellation_date", "grace_period_expires_date",
                          "auto_renew_status_change_date"} THEN
            _clean_date(data, name, FALSE)
        ELSE Cleaned(cleaned_data[name])

\* BaseForm._clean_fields: every field in turn is read through its widget,
\* cleaned, stored in cleaned_data and passed to its clean_<name> method; a
\* ValidationError puts the field in error and leaves it out of cleaned_data
CleanFields(form_cls, data, py, i, cleaned_data, errors) ==
    IF i > Len(Fields(form_cls)) THEN
        [is_valid |-> errors = {}, raised |-> "", cleaned_data |-> cleaned_data,
         errors |-> errors]
    ELSE
        LET field == Fields(form_cls)[i]
            read == value_from_datadict(field, data)
            value == FieldClean(field, read.value)
            stored == Put(cleaned_data, field.name, value.value)
            hook == CleanHook(form_cls, field.name, data, stored, py)
            abort(exc) == [is_valid |-> FALSE, raised |-> exc,
                           cleaned_data |-> cleaned_data, errors |-> errors]
        IN  IF read.kind = "raise" THEN abort(read.exc)
            ELSE IF value.kind = "invalid" THEN
                CleanFields(form_cls, data, py, i + 1, cleaned_data,
                            errors \cup {field.name})
            ELSE IF hook.kind = "raise" THEN abort(hook.exc)
            ELSE IF hook.kind = "invalid" THEN
                CleanFields(form_cls, data, py, i + 1, cleaned_data,
                            errors \cup {field.name})
            ELSE
                CleanFields(form_cls, data, py, i + 1,
                            Put(cleaned_data, field.name, hook.value), errors)

----------------------------------------------------------------------------
(* Submitted notifications.  The times in ms are shortened so that they fit *)
(* the checker's integers.                                                  *)

InfoCommon ==
    ("original_purchase_date" :> Str("2020-06-27 00:02:42 Etc/GMT"))
    @@ ("original_purchase_date_ms" :> Str("1593216"))
    @@ ("purchase_date" :> Str("2020-06-27 00:02:39 Etc/GMT"))
    @@ ("original_transaction_id" :> Str("000000000000000"))
    @@ ("transaction_id" :> Str("000000000000000"))
    @@ ("is_in_intro_offer_period" :> Str("false"))
    @@ ("is_trial_period" :> Str("false"))

ProductId == "product_id" :> Str("com.educreations.proteacher.1month")
PurchaseDateMs == "purchase_date_ms" :> Str("1593216")
Quantity(text) == "quantity" :> Str(text)

\* latest_receipt_info as a notification carries it
InfoOfNotification ==
    InfoCommon @@ ("app_item_id" :> Str("000000000")) @@ ("item_id" :> Str("000000000"))
    @@ ("bid" :> Str("com.educreations.ios.Educreations"))
    @@ ("expires_date" :> Str("1595808"))

\* an entry of the unified receipt's latest_receipt_info
InfoOfUnifiedReceipt ==
    InfoCommon @@ ("expires_date" :> Str("2020-07-27 00:02:39 Etc/GMT"))
    @@ ("expires_date_ms" :> Str("1595808"))
    @@ ("subscription_group_identifier" :> Str("00000000"))

\* a well-formed entry; one without product_id; one with a quantity that is
\* no number; one whose purchase_date comes as text only
Variants(info) ==
    {info @@ ProductId @@ PurchaseDateMs @@ Quantity("1"),
     info @@ PurchaseDateMs @@ Quantity("1"),
     info @@ ProductId @@ PurchaseDateMs @@ Quantity("one"),
     info @@ ProductId @@ Quantity("1")}

GoodInfo == InfoOfNotification @@ ProductId @@ PurchaseDateMs @@ Quantity("1")
GoodItem == InfoOfUnifiedReceipt @@ ProductId @@ PurchaseDateMs @@ Quantity("1")

GoodPending ==
    ("auto_renew_product_id" :> Str("com.educreations.proteacher.1month"))
    @@ ("auto_renew_status" :> Str("1"))
    @@ ("original_transaction_id" :> Str("000000000000000"))
    @@ ProductId

PendingRenewals ==
    {GoodPending,
     ("auto_renew_status" :> Str("1")) @@ ("original_transaction_id" :> Str("0")),
     GoodPending @@ ("expiration_intent" :> Str("9")),
     GoodPending @@ ("grace_period_expires_date_ms" :> Str("1595808"))}

\* key :> v for every v of values, and the dict without the key
Optional(key, values) == {EmptyDict} \cup {key :> v : v \in values}

ItemLists ==
    {List(<<>>), List(<<Dict(GoodItem)>>), List(<<Dict(EmptyDict)>>), Dict(GoodItem),
     Dict(EmptyDict), Num(0)}
    \cup {List(<<Dict(GoodItem), Dict(item)>>) : item \in Variants(InfoOfUnifiedReceipt)}

PendingLists ==
    {List(<<Dict(p)>>) : p \in PendingRenewals} \cup {Str("garbage")}

\* unified receipts that differ in environment, status and the list of
\* entries, and well-formed ones that differ in the pending renewals and in
\* the encoded receipt
UnifiedReceipts ==
    {e @@ s @@ l :
        e \in Optional("environment", {Str("Production"), Str("PROD")}),
        s \in Optional("status", {Num(0), Num(21004)}),
        l \in Optional("latest_receipt_info", ItemLists)}
    \cup {("environment" :> Str("Sandbox")) @@ r @@ p :
            r \in Optional("latest_receipt", {Str("asdfasdfasdf"), Str("asdfasdfasd")}),
            p \in Optional("pending_renewal_info", PendingLists)}

NotificationCommon ==
    ("environment" :> Str("PROD")) @@ ("notification_type" :> Str("DID_FAIL_TO_RENEW"))
    @@ ("bid" :> Str("com.educreations.ios.Educreations")) @@ ("bvrs" :> Str("00000"))
    @@ ("auto_renew_status" :> Str("true")) @@ ("latest_receipt" :> Str("asdfasdf"))

NotificationInfos == {Dict(i) : i \in Variants(InfoOfNotification)}

Notifications ==
    {NotificationCommon @@ w @@ i @@ x @@ u :
        w \in Optional("password", {Str("asdf")}),
        i \in Optional("latest_receipt_info", {Dict(GoodInfo)}),
        x \in Optional("latest_expired_receipt_info", NotificationInfos),
        u \in Optional("unified_receipt",
                       {Dict(r) : r \in UnifiedReceipts}
                       \cup {List(<<>>), List(<<Dict(GoodItem)>>), Str("garbage")}
                       \cup {JsonText(Dict(r)) : r \in
                                {("environment" :> Str("Production")),
                                 ("environment" :> Str("Production"))
                                     @@ ("status" :> Num(21004))}})}

----------------------------------------------------------------------------
(* form = form_cls(data); form.is_valid() *)

IsValid(form_cls, data, py) ==
    LET form == FullClean(form_cls, data, py)
    IN  /\ pc' = "done"
        /\ entry' = form_cls
        /\ args' = [data |-> data, py |-> py]
        /\ result' = IF form.raised # "" THEN Raise(form.raised, EmptyDict)
                     ELSE Return([is_valid |-> form.is_valid,
                                  cleaned_data |-> form.cleaned_data,
                                  errors |-> form.errors])
        /\ UNCHANGED <<secret, attempt, url, payload, requests, last_response,
                       apple_results, stages, now, threads>>

ValidateLatestReceiptInfo(datas) ==
    /\ pc = "idle"
    /\ \E data \in datas, py \in PythonVersions : IsValid("AppleLatestReceiptInfoForm", data, py)

ValidateUnifiedLatestReceiptInfo(datas) ==
    /\ pc = "idle"
    /\ \E data \in datas, py \in PythonVersions : IsValid("AppleUnifiedLatestReceiptInfoForm", data, py)

ValidateUnifiedPendingRenewalInfo(datas) ==
    /\ pc = "idle"
    /\ \E data \in datas, py \in PythonVersions : IsValid("AppleUnifiedPendingRenewalInfoForm", data, py)

ValidateUnifiedReceipt(datas) ==
    /\ pc = "idle"
    /\ \E data \in datas, py \in PythonVersions : IsValid("AppleUnifiedReceiptForm", data, py)

ValidateStatusUpdate(datas) ==
    /\ pc = "idle"
    /\ \E data \in datas, py \in PythonVersions : IsValid("AppleStatusUpdateForm", data, py)

InitForms == InitWith({""})

NextForms ==
    \/ ValidateLatestReceiptInfo(Variants(InfoOfNotification))
    \/ ValidateUnifiedLatestReceiptInfo(Variants(InfoOfUnifiedReceipt))
    \/ ValidateUnifiedPendingRenewalInfo(PendingRenewals)
    \/ ValidateUnifiedReceipt(UnifiedReceipts)
    \/ ValidateStatusUpdate(Notifications)

SpecForms == InitForms /\ [][NextForms]_vars


----------------------------------------------------------------------------
(* Properties of the notification forms *)

FormChecked(form_cls) == pc = "done" /\ entry = form_cls

FormInvalid == result.kind = "return" /\ ~result.value.is_valid
FormValid == result.kind = "return" /\ result.value.is_valid

\* the form class rejects the data: is_valid() is False
Rejects(form_cls, data, py) ==
    LET form == FullClean(form_cls, data, py)
    IN  form.raised = "" /\ ~form.is_valid

Accepts(form_cls, data, py) ==
    LET form == FullClean(form_cls, data, py)
    IN  form.raised = "" /\ form.is_valid

\* some item of the list under key is rejected by its item form
ItemRejected(u, key, form_cls, py) ==
    /\ Has(u, key)
    /\ IsListValue(u[key])
    /\ \E i \in 1..Len(u[key].list) :
          IsDict(u[key].list[i]) /\ Rejects(form_cls, u[key].list[i].dict, py)

NotAList(u, key) == Has(u, key) /\ ~IsListValue(u[key])

\* the grounds on which AppleUnifiedReceiptForm rejects a unified receipt
UnifiedReceiptRejected(u, py) ==
    \/ Has(u, "status") /\ u["status"] # Num(0)
    \/ Has(u, "environment") /\ u["environment"] \notin {Str("Sandbox"), Str("Production")}
    \/ NotAList(u, "latest_receipt_info")
    \/ NotAList(u, "pending_renewal_info")
    \/ ItemRejected(u, "latest_receipt_info", "AppleUnifiedLatestReceiptInfoForm", py)
    \/ ItemRejected(u, "pending_renewal_info", "AppleUnifiedPendingRenewalInfoForm", py)
    \/ Rejects("AppleUnifiedReceiptForm", u, py)

\* C27: AppleStatusUpdateForm is invalid (is_valid() does not return True)
\* whenever its unified_receipt is present and AppleUnifiedReceiptForm
\* rejects it (status present and
\* non-zero, environment outside Sandbox/Production, latest_receipt_info or
\* pending_renewal_info not a list, or a list item rejected by its item form);
\* an absent status of the unified receipt is treated as 0, and a well-formed
\* notification with a valid unified_receipt is valid.
C27_NestedErrorsPropagate ==
    (/\ FormChecked("AppleStatusUpdateForm")
     /\ Has(args.data, "unified_receipt")
     /\ IsDict(args.data["unified_receipt"])) =>
        LET u == args.data["unified_receipt"].dict
            rest == [k \in DOMAIN args.data \ {"unified_receipt"} |-> args.data[k]]
        IN  /\ UnifiedReceiptRejected(u, args.py) => ~FormValid
            /\ (FormValid /\ u # EmptyDict /\ ~Has(u, "status")) =>
                  result.value.cleaned_data["unified_receipt"].dict["status"] = Num(0)
            /\ (/\ Accepts("AppleStatusUpdateForm", rest, args.py)
                /\ Accepts("AppleUnifiedReceiptForm", u, args.py)) => FormValid

\* C28: the cleaned latest_expired_receipt_info of AppleStatusUpdateForm is
\* the AppleLatestReceiptInfoForm-validated form of the submitted
\* latest_expired_receipt_info, present whenever that field was submitted and
\* valid, and a submitted latest_expired_receipt_info that
\* AppleLatestReceiptInfoForm rejects makes the whole form invalid.
C28_ExpiredInfoValidated ==
    (/\ FormChecked("AppleStatusUpdateForm")
     /\ result.kind = "return"
     /\ Has(args.data, "latest_expired_receipt_info")
     /\ IsDict(args.data["latest_expired_receipt_info"])) =>
        LET submitted == args.data["latest_expired_receipt_info"].dict
            form == FullClean("AppleLatestReceiptInfoForm", submitted, args.py)
        IN  /\ Accepts("AppleLatestReceiptInfoForm", submitted, args.py) =>
                  /\ Has(result.value.cleaned_data, "latest_expired_receipt_info")
                  /\ result.value.cleaned_data["latest_expired_receipt_info"]
                        = Dict(form.cleaned_data)
            /\ Rejects("AppleLatestReceiptInfoForm", submitted, args.py) => FormInvalid

====
